---- MODULE Spec2Model ----
(***************************************************************************)
(* Variable-sized record allocator of the NDB tuple manager                *)
(* (storage/ndb/src/kernel/blocks/dbtup/DbtupVarAlloc.cpp).                *)
(*                                                                         *)
(* The fragment's free lists, the empty-page list, the chunk list and the  *)
(* pages of the page pool are the state; alloc_var_rec, alloc_var_rowid,   *)
(* free_var_rec and realloc_var_part are the operations.  Var_page (the    *)
(* page layout engine), the intrusive lists, the fixed-part allocator and  *)
(* the page pool are not part of DbtupVarAlloc.cpp; they are modelled from *)
(* the specification's description of them.                                *)
(***************************************************************************)
EXTENDS Integers, Sequences, FiniteSets, TLC

\* ---------------------------------------------------------------- bounds
\* Number of pages the global page pool can hand to this fragment.
PoolPages == 3
\* Number of fixed-part row slots (tuple headers) the fragment can hold.
MaxRows == 3
\* Number of operations a run performs.
MaxOps == 3

\* Record sizes (in words) the callers ask for.  300 classifies into class 0,
\* 3800 into class 2, 4000 into class 2 (4001 too), 5000 into the top class.
Sizes == {300, 3800, 4000, 5000}
\* alloc_var_rec is also called with the largest size a page can hold: the
\* size and its index word take all the free space of a fresh page.
RowSizes == Sizes \cup {8158}

Pages == 1..PoolPages
Rows == 1..MaxRows

\* ------------------------------------------------------------- constants
\* Number of free lists.  update_free_page_list reads c_min_list_size[list_index]
\* with list_index == MAX_FREE_LIST (the value it stores for an unlisted page),
\* and init_list_sizes fills indexes 0..4: index 4 is the pseudo class of the
\* unlisted pages and the free lists are 0..3.
MAX_FREE_LIST == 4
\* Var_page::DATA_WORDS: an emptied page has free_space == DATA_WORDS - 1,
\* which is the maximum of the top class (8159).
DATA_WORDS == 8160
\* get_alloc_page: loop < 16
FallbackScanLimit == 16
\* alloc_var_rec, alloc_var_rowid: XXX = Tuple_header::HeaderSize +
\* Var_part_ref::SZ32, the words the fixed part is widened by.  The two are
\* declared outside DbtupVarAlloc.cpp; the model takes two header words and
\* a one-word reference, and uses no more of XXX than that it is not 0.
XXX == 3
\* get_empty_var_page: allocConsPages(10, cnt, ptr.i)
ChunkPages == 10
\* RNIL, the null page id (0xffffff00, read as a signed 32-bit number)
RNIL == -256
\* A Uint32 is kept as two 16-bit halves [hi, lo]; sizes and free space fit
\* into the low half.
Uint16Mod == 65536

\* Uint32 a - b for a, b < 2^16: wraps modulo 2^32 when a < b.
Uint32_sub(a, b) ==
  IF a >= b THEN [hi |-> 0, lo |-> a - b]
  ELSE [hi |-> Uint16Mod - 1, lo |-> a - b + Uint16Mod]
\* Uint32 x <= y for y < 2^16
Uint32_le(x, y) == x.hi = 0 /\ x.lo <= y
\* Uint32 x += n and x -= n for n < 2^16: both wrap modulo 2^32.
Uint32_plus(x, n) ==
  [hi |-> (x.hi + (x.lo + n) \div Uint16Mod) % Uint16Mod,
   lo |-> (x.lo + n) % Uint16Mod]
Uint32_minus(x, n) ==
  IF x.lo >= n
  THEN [hi |-> x.hi, lo |-> x.lo - n]
  ELSE [hi |-> (x.hi + Uint16Mod - 1) % Uint16Mod, lo |-> x.lo + Uint16Mod - n]

\* Faulty variant of c_min_list_size: class 1 begins above the end of class
\* 0, so the classes are not contiguous.
c_min_list_size_gap(i) ==
  CASE i = 0 -> 200
    [] i = 1 -> 600
    [] i = 2 -> 1000
    [] i = 3 -> 4080
    [] i = 4 -> 0

\* init_list_sizes
c_min_list_size(i) ==
  CASE i = 0 -> 200
    [] i = 1 -> 500
    [] i = 2 -> 1000
    [] i = 3 -> 4080
    [] i = 4 -> 0

\* Faulty variant of c_max_list_size: the last class ends one word below the
\* free space of an empty page.
c_max_list_size_short(i) ==
  CASE i = 0 -> 499
    [] i = 1 -> 999
    [] i = 2 -> 4079
    [] i = 3 -> 8158
    [] i = 4 -> 199

c_max_list_size(i) ==
  CASE i = 0 -> 499
    [] i = 1 -> 999
    [] i = 2 -> 4079
    [] i = 3 -> 8159
    [] i = 4 -> 199

\* Result of calculate_free_list_impl when no class matches (ndbrequire(false)).
NoClass == MAX_FREE_LIST + 1

\* ---------------------------------------------------------------- helpers
RECURSIVE SumLen(_, _)
\* Sum of the lengths of the live entries with index in S.
SumLen(entries, S) ==
  IF S = {} THEN 0
  ELSE LET i == CHOOSE x \in S : TRUE
       IN (IF entries[i].free THEN 0 ELSE entries[i].len) + SumLen(entries, S \ {i})

RECURSIVE SetToSeq(_)
\* The elements of a set of integers in increasing order.
SetToSeq(S) ==
  IF S = {} THEN <<>>
  ELSE LET m == CHOOSE x \in S : \A y \in S : x <= y
       IN <<m>> \o SetToSeq(S \ {m})

RECURSIVE Run(_, _)
\* The sequence <<first, first + 1, ..., first + n - 1>>.
Run(first, n) == IF n <= 0 THEN <<>> ELSE <<first>> \o Run(first + 1, n - 1)

SeqRemove(s, x) == SelectSeq(s, LAMBDA y : y # x)
SeqSet(s) == {s[i] : i \in 1..Len(s)}
Min(a, b) == IF a <= b THEN a ELSE b
\* Body applied to the value v: a local variable that is assigned once.
With(v, Body(_)) == Body(v)

\* ------------------------------------------------ Var_page (page layout engine)
\* A slot of a page: free (index entry unused) or live at words
\* pos .. pos+len-1.  The first n words of a live slot hold the caller's data
\* `tag`; the words behind them were never written.
FreeEntry == [free |-> TRUE, pos |-> 0, len |-> 0, tag |-> 0, n |-> 0]

\* A page buffer that is not (yet) a variable-sized page.
RawPage ==
  [page_state |-> "POOL", free_space |-> 0, list_index |-> MAX_FREE_LIST,
   insert_pos |-> 0, high_index |-> 1, entries |-> <<>>,
   chunk_size |-> 0, next_chunk |-> RNIL]

\* Var_page::init: an empty page; index 0 is reserved, so one word is gone.
Var_init(pg) ==
  [pg EXCEPT !.free_space = DATA_WORDS - 1, !.insert_pos = 0,
             !.high_index = 1, !.entries = <<>>]

FreeIdx(pg) == {i \in 1..Len(pg.entries) : pg.entries[i].free}
LiveIdx(pg) == {i \in 1..Len(pg.entries) : ~pg.entries[i].free}

RECURSIVE Repacked(_, _)
\* The first m entries after a reorg: a live entry of non-zero length starts
\* behind all live entries of higher index.
Repacked(entries, m) ==
  IF m = 0 THEN <<>>
  ELSE Append(Repacked(entries, m - 1),
              IF ~entries[m].free /\ entries[m].len > 0
              THEN [entries[m] EXCEPT
                      !.pos = SumLen(entries, (m + 1)..Len(entries))]
              ELSE entries[m])

\* Var_page::reorg: compacts the live entries of non-zero length, in
\* decreasing index order, to the start of the page; indexes are kept.
Var_reorg(pg) ==
  [pg EXCEPT !.entries = Repacked(pg.entries, Len(pg.entries)),
             !.insert_pos = SumLen(pg.entries, 1..Len(pg.entries))]

\* The index alloc_record takes: a free index entry if there is one (the k-th
\* smallest, k taken modulo their number), else a new one at high_index.
PickIdx(pg, k) ==
  LET f == SetToSeq(FreeIdx(pg))
  IN IF Len(f) = 0 THEN pg.high_index ELSE f[((k - 1) % Len(f)) + 1]

\* Var_page::alloc_record: carves alloc_size words at insert_pos (after a
\* reorg if the contiguous room is too small).  A new index entry costs one
\* more word.  ok is FALSE when the page lacks the room (the insert fails).
Var_alloc_record(pg, alloc_size, k) ==
  LET newIndex == FreeIdx(pg) = {}
      idx == PickIdx(pg, k)
      need == alloc_size + (IF newIndex THEN 1 ELSE 0)
      pg1 == IF alloc_size >= DATA_WORDS - (pg.insert_pos + pg.high_index)
             THEN Var_reorg(pg) ELSE pg
      e == [free |-> FALSE, pos |-> pg1.insert_pos, len |-> alloc_size,
            tag |-> 0, n |-> 0]
  IN IF pg.free_space < need
     THEN [ok |-> FALSE, idx |-> 0, pg |-> pg]
     ELSE [ok |-> TRUE, idx |-> idx,
           pg |-> [pg1 EXCEPT
                     !.entries = IF newIndex THEN Append(pg1.entries, e)
                                 ELSE [pg1.entries EXCEPT ![idx] = e],
                     !.high_index = IF newIndex THEN @ + 1 ELSE @,
                     !.insert_pos = @ + alloc_size,
                     !.free_space = @ - need]]

\* Var_page::free_record: gives the slot's words back to free_space; freeing
\* the highest index entry also gives back that index word and those of the
\* free entries right below it.  ok is FALSE when idx is no live slot.
Var_free_record(pg, idx) ==
  IF ~(idx \in LiveIdx(pg)) THEN [ok |-> FALSE, pg |-> pg]
  ELSE
    LET e == pg.entries[idx]
        below == {j \in 1..(idx - 1) : ~pg.entries[j].free}
        newTop == IF below = {} THEN 0
                  ELSE CHOOSE j \in below : \A x \in below : x <= j
        last == idx + 1 = pg.high_index
    IN [ok |-> TRUE,
        pg |-> [pg EXCEPT
                  !.entries = IF last THEN SubSeq(pg.entries, 1, newTop)
                              ELSE [pg.entries EXCEPT ![idx] = FreeEntry],
                  !.high_index = IF last THEN newTop + 1 ELSE @,
                  !.free_space = @ + e.len + (IF last THEN idx - newTop ELSE 0),
                  !.insert_pos = IF e.pos + e.len = pg.insert_pos
                                 THEN @ - e.len ELSE @]]

\* Var_page::is_space_behind_entry
Var_is_space_behind_entry(pg, idx, growth_len) ==
  /\ pg.entries[idx].pos + pg.entries[idx].len = pg.insert_pos
  /\ pg.insert_pos + growth_len < DATA_WORDS - pg.high_index

\* Var_page::grow_entry: extends the entry that ends at insert_pos.
Var_grow_entry(pg, idx, growth_len) ==
  [pg EXCEPT !.entries[idx].len = @ + growth_len,
             !.insert_pos = @ + growth_len,
             !.free_space = @ - growth_len]

Var_get_entry_len(pg, idx) == pg.entries[idx].len
Var_set_entry_len(pg, idx, len) == [pg EXCEPT !.entries[idx].len = len]
Var_set_entry_offset(pg, idx, pos) == [pg EXCEPT !.entries[idx].pos = pos]

\* ----------------------------------------------------------- block state
\* The state of the block is handled as one record S:
\*   page[i]              the page buffers of c_page_pool
\*   free_var_page_array  Fragrecord: one list of page ids per class
\*   m_empty_pages        Fragrecord: pages of a chunk not yet initialised
\*   m_var_page_chunks    Fragrecord: head of the chunk list
\*   noOfVarPages         Fragrecord: pages obtained from the pool
\*   pool_used            pages the page pool has handed out (ids 1..pool_used)
\*   fix[r]               fixed part of row r: allocated or not, Var_part_ref
\*   fault                "none", or the fatal check that stopped the block
NoKey == [m_page_no |-> RNIL, m_page_idx |-> 0]
FreeFix == [alloc |-> FALSE, ref |-> NoKey]

Fail(S, what) == [S EXCEPT !.fault = what]
\* The fault of a block that went on after a write past a slot's end: its
\* memory is corrupted, and what it does from there on is not modelled.
Overrun == "memcpy: wrote past the slot, memory corrupted"
Fatal(S) == S.fault # "none" /\ S.fault # Overrun
\* The fault of an insert into a page that lacks the room (alloc_var_part does
\* not look at what alloc_record returns).
NoRoom == "alloc_record: page lacks room"
\* free_var_rec: ndbassert(pagePtr.p->free_space <= Var_page::DATA_WORDS)
FreeSpaceAssert == "free_var_rec: ndbassert(free_space <= DATA_WORDS)"

\* LocalDLList<Page>::add: links the page in as the first item.
DLList_add(list, i) == <<i>> \o list
\* LocalDLList<Page>::remove
DLList_remove(list, i) == SeqRemove(list, i)
DLList_member(list, i) == i \in SeqSet(list)

\* allocConsPages(n, cnt, i): the pool delivers at most n consecutive pages,
\* as many as it decides (d) and still has.
allocConsPages(S, n, d) == Min(Min(n, d), PoolPages - S.pool_used)

\* alloc_fix_rec: the fixed-part allocator hands out the tuple header of row
\* r; its Var_part_ref is not yet assigned.
alloc_fix_rec(S, r) == [S EXCEPT !.fix[r] = [alloc |-> TRUE, ref |-> NoKey]]
\* alloc_fix_rowid: the same for the row id the caller names.
alloc_fix_rowid(S, r) == [S EXCEPT !.fix[r] = [alloc |-> TRUE, ref |-> NoKey]]
\* free_fix_rec
free_fix_rec(S, r) == [S EXCEPT !.fix[r] = FreeFix]

\* ------------------------------------------------------- DbtupVarAlloc.cpp
\* Faulty variant of calculate_free_list_impl: the scan compares with <
\* where the code compares with <=.
calculate_free_list_impl_strict(free_space_size) ==
  LET fit == {i \in 0..(MAX_FREE_LIST - 1) : free_space_size < c_max_list_size(i)}
  IN IF fit = {} THEN NoClass
     ELSE CHOOSE i \in fit : \A j \in fit : i <= j

\* calculate_free_list_impl: the first list whose maximum covers the size.
calculate_free_list_impl(free_space_size) ==
  LET fit == {i \in 0..(MAX_FREE_LIST - 1) : free_space_size <= c_max_list_size(i)}
  IN IF fit = {} THEN NoClass
     ELSE CHOOSE i \in fit : \A j \in fit : i <= j

\* Faulty variant of update_free_page_list: the page is never re-filed.
update_free_page_list_never(S, p) == S

\* Faulty variant of update_free_page_list: a page that is in no list
\* (list_index == MAX_FREE_LIST) is left out of the lists when its free_space
\* has risen into the range of a class.
update_free_page_list_stays_out(S, p) ==
  With(calculate_free_list_impl(S.page[p].free_space), LAMBDA new_list_index :
    LET free_space == S.page[p].free_space
        list_index == S.page[p].list_index
        S1 == IF list_index # MAX_FREE_LIST
              THEN [S EXCEPT !.free_var_page_array[list_index] = DLList_remove(@, p)]
              ELSE S
    IN IF (free_space < c_min_list_size(list_index)) \/
          (free_space > c_max_list_size(list_index))
       THEN IF new_list_index = NoClass
            THEN Fail(S, "calculate_free_list_impl: ndbrequire(false)")
            ELSE IF free_space < c_min_list_size(new_list_index)
            THEN [S1 EXCEPT !.page[p].list_index = MAX_FREE_LIST]
            ELSE IF list_index = MAX_FREE_LIST
            THEN S
            ELSE [S1 EXCEPT !.free_var_page_array[new_list_index] = DLList_add(@, p),
                            !.page[p].list_index = new_list_index]
       ELSE S)

\* Faulty variant of update_free_page_list: the page is re-filed (unlinked
\* and added at the front of the list of its class) on every call, also when
\* its free_space is within the range of its list_index.
update_free_page_list_always_refiles(S, p) ==
  With(calculate_free_list_impl(S.page[p].free_space), LAMBDA new_list_index :
    LET free_space == S.page[p].free_space
        list_index == S.page[p].list_index
        S1 == IF list_index # MAX_FREE_LIST
              THEN [S EXCEPT !.free_var_page_array[list_index] = DLList_remove(@, p)]
              ELSE S
    IN IF new_list_index = NoClass
       THEN Fail(S, "calculate_free_list_impl: ndbrequire(false)")
       ELSE IF free_space < c_min_list_size(new_list_index)
       THEN [S1 EXCEPT !.page[p].list_index = MAX_FREE_LIST]
       ELSE [S1 EXCEPT !.free_var_page_array[new_list_index] = DLList_add(@, p),
                       !.page[p].list_index = new_list_index])

\* Faulty variant of update_free_page_list: a re-filed page is not unlinked
\* from the list it was in.
update_free_page_list_keeps_link(S, p) ==
  With(calculate_free_list_impl(S.page[p].free_space), LAMBDA new_list_index :
    LET free_space == S.page[p].free_space
        list_index == S.page[p].list_index
    IN IF (free_space < c_min_list_size(list_index)) \/
          (free_space > c_max_list_size(list_index))
       THEN IF new_list_index = NoClass
            THEN Fail(S, "calculate_free_list_impl: ndbrequire(false)")
            ELSE IF free_space < c_min_list_size(new_list_index)
            THEN [S EXCEPT !.page[p].list_index = MAX_FREE_LIST]
            ELSE [S EXCEPT !.free_var_page_array[new_list_index] = DLList_add(@, p),
                           !.page[p].list_index = new_list_index]
       ELSE S)

\* update_free_page_list: re-files page p when its free_space has left the
\* range of its list_index.
update_free_page_list(S, p) ==
  With(calculate_free_list_impl(S.page[p].free_space), LAMBDA new_list_index :
    LET free_space == S.page[p].free_space
        list_index == S.page[p].list_index
        S1 == IF list_index # MAX_FREE_LIST
              THEN [S EXCEPT !.free_var_page_array[list_index] = DLList_remove(@, p)]
              ELSE S
    IN IF (free_space < c_min_list_size(list_index)) \/
          (free_space > c_max_list_size(list_index))
       THEN IF new_list_index = NoClass
            THEN Fail(S, "calculate_free_list_impl: ndbrequire(false)")
            ELSE IF list_index # MAX_FREE_LIST /\
                    ~DLList_member(S.free_var_page_array[list_index], p)
            THEN Fail(S, "list.remove: page not in list")
            ELSE IF free_space < c_min_list_size(new_list_index)
            THEN IF new_list_index # 0
                 THEN Fail(S1, "update_free_page_list: ndbrequire(new_list_index == 0)")
                 ELSE [S1 EXCEPT !.page[p].list_index = MAX_FREE_LIST]
            ELSE [S1 EXCEPT !.free_var_page_array[new_list_index] = DLList_add(@, p),
                            !.page[p].list_index = new_list_index]
       ELSE S)

\* Faulty variant of start_index_of: the class of alloc_size itself, without
\* the step to the class above.
start_index_of_own_class(c) == c

\* get_alloc_page: start_index, from the class c of alloc_size: the class
\* above, or the top class itself.
start_index_of(c) == IF c = MAX_FREE_LIST - 1 THEN c ELSE c + 1

\* get_alloc_page: the head of the first non-empty list above the class of
\* alloc_size (the top class itself when alloc_size classifies into it), else
\* the first of the first 16 pages of the list below start_index with room.
\* Result: the page id i (RNIL: none), and the fatal check that failed, if one.
get_alloc_page(S, alloc_size) ==
  With(calculate_free_list_impl(alloc_size), LAMBDA c :
  With(start_index_of(c), LAMBDA start_index :
  With({i \in start_index..(MAX_FREE_LIST - 1) : S.free_var_page_array[i] # <<>>},
       LAMBDA up :
    IF c = NoClass
    THEN [i |-> RNIL, fault |-> "calculate_free_list_impl: ndbrequire(false)"]
    ELSE IF c # MAX_FREE_LIST - 1 /\ ~(c < MAX_FREE_LIST - 1)
    THEN [i |-> RNIL,
          fault |-> "get_alloc_page: ndbrequire(start_index < MAX_FREE_LIST - 1)"]
    ELSE IF up # {}
    THEN [i |-> Head(S.free_var_page_array[CHOOSE i \in up : \A j \in up : i <= j]),
          fault |-> "none"]
    ELSE IF start_index <= 0
    THEN [i |-> RNIL, fault |-> "get_alloc_page: ndbrequire(start_index > 0)"]
    ELSE
    With(S.free_var_page_array[start_index - 1], LAMBDA list :
    With({j \in 1..Min(Len(list), FallbackScanLimit) :
            S.page[list[j]].free_space >= alloc_size}, LAMBDA hit :
      IF hit # {}
      THEN [i |-> list[CHOOSE j \in hit : \A x \in hit : j <= x], fault |-> "none"]
      ELSE [i |-> RNIL, fault |-> "none"])))))

\* Faulty variant of get_empty_var_page: the page taken from m_empty_pages is
\* not unlinked from it.
get_empty_var_page_keeps_front(S, d) ==
  With(allocConsPages(S, ChunkPages, d), LAMBDA cnt :
  With(S.pool_used + 1, LAMBDA ret :
    IF S.m_empty_pages # <<>>
    THEN [i |-> Head(S.m_empty_pages), S |-> S]
    ELSE IF cnt = 0
    THEN [i |-> RNIL, S |-> [S EXCEPT !.noOfVarPages = @ + cnt]]
    ELSE [i |-> ret,
          S |-> [S EXCEPT
                   !.noOfVarPages = @ + cnt,
                   !.pool_used = @ + cnt,
                   !.page = [q \in Pages |->
                               IF q = ret
                               THEN [S.page[q] EXCEPT
                                       !.page_state = "ZEMPTY_MM",
                                       !.chunk_size = cnt,
                                       !.next_chunk = S.m_var_page_chunks]
                               ELSE IF q > ret /\ q < ret + cnt
                               THEN [S.page[q] EXCEPT !.page_state = "ZEMPTY_MM"]
                               ELSE S.page[q]],
                   !.m_empty_pages = IF cnt > 1 THEN Run(ret + 1, cnt - 1) \o @ ELSE @,
                   !.m_var_page_chunks = ret]]))

\* Faulty variant of get_empty_var_page: the page taken from m_empty_pages is
\* its last, not its front.
get_empty_var_page_pops_back(S, d) ==
  With(allocConsPages(S, ChunkPages, d), LAMBDA cnt :
  With(S.pool_used + 1, LAMBDA ret :
    IF S.m_empty_pages # <<>>
    THEN [i |-> S.m_empty_pages[Len(S.m_empty_pages)],
          S |-> [S EXCEPT !.m_empty_pages = SubSeq(@, 1, Len(@) - 1)]]
    ELSE IF cnt = 0
    THEN [i |-> RNIL, S |-> [S EXCEPT !.noOfVarPages = @ + cnt]]
    ELSE [i |-> ret,
          S |-> [S EXCEPT
                   !.noOfVarPages = @ + cnt,
                   !.pool_used = @ + cnt,
                   !.page = [q \in Pages |->
                               IF q = ret
                               THEN [S.page[q] EXCEPT
                                       !.page_state = "ZEMPTY_MM",
                                       !.chunk_size = cnt,
                                       !.next_chunk = S.m_var_page_chunks]
                               ELSE IF q > ret /\ q < ret + cnt
                               THEN [S.page[q] EXCEPT !.page_state = "ZEMPTY_MM"]
                               ELSE S.page[q]],
                   !.m_empty_pages = IF cnt > 1 THEN Run(ret + 1, cnt - 1) \o @ ELSE @,
                   !.m_var_page_chunks = ret]]))

\* Faulty variant of get_empty_var_page: the fragment's page count grows by
\* one, the page returned, whatever the number of pages delivered.
get_empty_var_page_counts_returned(S, d) ==
  With(allocConsPages(S, ChunkPages, d), LAMBDA cnt :
  With(S.pool_used + 1, LAMBDA ret :
    IF S.m_empty_pages # <<>>
    THEN [i |-> Head(S.m_empty_pages),
          S |-> [S EXCEPT !.m_empty_pages = Tail(@)]]
    ELSE IF cnt = 0
    THEN [i |-> RNIL, S |-> [S EXCEPT !.noOfVarPages = @ + cnt]]
    ELSE [i |-> ret,
          S |-> [S EXCEPT
                   !.noOfVarPages = @ + 1,
                   !.pool_used = @ + cnt,
                   !.page = [q \in Pages |->
                               IF q = ret
                               THEN [S.page[q] EXCEPT
                                       !.page_state = "ZEMPTY_MM",
                                       !.chunk_size = cnt,
                                       !.next_chunk = S.m_var_page_chunks]
                               ELSE IF q > ret /\ q < ret + cnt
                               THEN [S.page[q] EXCEPT !.page_state = "ZEMPTY_MM"]
                               ELSE S.page[q]],
                   !.m_empty_pages = IF cnt > 1 THEN Run(ret + 1, cnt - 1) \o @ ELSE @,
                   !.m_var_page_chunks = ret]]))

\* Faulty variant of get_empty_var_page: the fragment's page count grows by
\* the number of pages asked for, not by the number delivered.
get_empty_var_page_counts_asked(S, d) ==
  With(allocConsPages(S, ChunkPages, d), LAMBDA cnt :
  With(S.pool_used + 1, LAMBDA ret :
    IF S.m_empty_pages # <<>>
    THEN [i |-> Head(S.m_empty_pages),
          S |-> [S EXCEPT !.m_empty_pages = Tail(@)]]
    ELSE IF cnt = 0
    THEN [i |-> RNIL, S |-> [S EXCEPT !.noOfVarPages = @ + ChunkPages]]
    ELSE [i |-> ret,
          S |-> [S EXCEPT
                   !.noOfVarPages = @ + ChunkPages,
                   !.pool_used = @ + cnt,
                   !.page = [q \in Pages |->
                               IF q = ret
                               THEN [S.page[q] EXCEPT
                                       !.page_state = "ZEMPTY_MM",
                                       !.chunk_size = cnt,
                                       !.next_chunk = S.m_var_page_chunks]
                               ELSE IF q > ret /\ q < ret + cnt
                               THEN [S.page[q] EXCEPT !.page_state = "ZEMPTY_MM"]
                               ELSE S.page[q]],
                   !.m_empty_pages = IF cnt > 1 THEN Run(ret + 1, cnt - 1) \o @ ELSE @,
                   !.m_var_page_chunks = ret]]))

\* Faulty variant of get_empty_var_page: the new chunk's header does not
\* record the previous head of the chunk list.
get_empty_var_page_drops_chunks(S, d) ==
  With(allocConsPages(S, ChunkPages, d), LAMBDA cnt :
  With(S.pool_used + 1, LAMBDA ret :
    IF S.m_empty_pages # <<>>
    THEN [i |-> Head(S.m_empty_pages),
          S |-> [S EXCEPT !.m_empty_pages = Tail(@)]]
    ELSE IF cnt = 0
    THEN [i |-> RNIL, S |-> [S EXCEPT !.noOfVarPages = @ + cnt]]
    ELSE [i |-> ret,
          S |-> [S EXCEPT
                   !.noOfVarPages = @ + cnt,
                   !.pool_used = @ + cnt,
                   !.page = [q \in Pages |->
                               IF q = ret
                               THEN [S.page[q] EXCEPT
                                       !.page_state = "ZEMPTY_MM",
                                       !.chunk_size = cnt,
                                       !.next_chunk = RNIL]
                               ELSE IF q > ret /\ q < ret + cnt
                               THEN [S.page[q] EXCEPT !.page_state = "ZEMPTY_MM"]
                               ELSE S.page[q]],
                   !.m_empty_pages = IF cnt > 1 THEN Run(ret + 1, cnt - 1) \o @ ELSE @,
                   !.m_var_page_chunks = ret]]))

\* get_empty_var_page: the front of m_empty_pages, else the first page of a
\* new chunk of up to 10 pages whose other pages go to m_empty_pages.  d is
\* what the page pool would deliver.  Result: the page id i (RNIL: none) and
\* the state.
get_empty_var_page(S, d) ==
  With(allocConsPages(S, ChunkPages, d), LAMBDA cnt :
  With(S.pool_used + 1, LAMBDA ret :
    IF S.m_empty_pages # <<>>
    THEN [i |-> Head(S.m_empty_pages),
          S |-> [S EXCEPT !.m_empty_pages = Tail(@)]]
    ELSE IF cnt = 0
    THEN [i |-> RNIL, S |-> [S EXCEPT !.noOfVarPages = @ + cnt]]
    ELSE [i |-> ret,
          S |-> [S EXCEPT
                   !.noOfVarPages = @ + cnt,
                   !.pool_used = @ + cnt,
                   !.page = [q \in Pages |->
                               IF q = ret
                               THEN [S.page[q] EXCEPT
                                       !.page_state = "ZEMPTY_MM",
                                       !.chunk_size = cnt,
                                       !.next_chunk = S.m_var_page_chunks]
                               ELSE IF q > ret /\ q < ret + cnt
                               THEN [S.page[q] EXCEPT !.page_state = "ZEMPTY_MM"]
                               ELSE S.page[q]],
                   !.m_empty_pages = IF cnt > 1 THEN Run(ret + 1, cnt - 1) \o @ ELSE @,
                   !.m_var_page_chunks = ret]]))

\* Faulty variant of InitVarPage: the initialised page is not added to the
\* top free list.
InitVarPage_not_listed(S, i) ==
  [S EXCEPT
     !.page[i] = [Var_init(@) EXCEPT !.list_index = MAX_FREE_LIST - 1,
                                     !.page_state = "ZTH_MM_FREE"]]

\* alloc_var_part, the branch pagePtr.i == RNIL after get_empty_var_page gave
\* page i: the page is initialised, filed in the top list, marked in use.
InitVarPage(S, i) ==
  [S EXCEPT
     !.page[i] = [Var_init(@) EXCEPT !.list_index = MAX_FREE_LIST - 1,
                                     !.page_state = "ZTH_MM_FREE"],
     !.free_var_page_array[MAX_FREE_LIST - 1] = DLList_add(@, i)]

\* Faulty variant of alloc_var_part: the slot it carves is one word short.
alloc_var_part_one_short(S, alloc_size, d, k) ==
  With(get_alloc_page(S, alloc_size + 1), LAMBDA g :
    IF g.fault # "none"
    THEN [ok |-> FALSE, key |-> NoKey, S |-> Fail(S, g.fault)]
    ELSE
    With(IF g.i = RNIL THEN get_empty_var_page(S, d) ELSE [i |-> g.i, S |-> S],
         LAMBDA pagePtr :
      IF pagePtr.i = RNIL
      THEN [ok |-> FALSE, key |-> NoKey, S |-> pagePtr.S]
      ELSE
      With(IF g.i = RNIL THEN InitVarPage(pagePtr.S, pagePtr.i) ELSE S, LAMBDA S1 :
      With(Var_alloc_record(S1.page[pagePtr.i], alloc_size - 1, k), LAMBDA a :
        IF ~a.ok
        THEN [ok |-> FALSE, key |-> NoKey, S |-> Fail(S1, NoRoom)]
        ELSE [ok |-> TRUE,
              key |-> [m_page_no |-> pagePtr.i, m_page_idx |-> a.idx],
              S |-> update_free_page_list([S1 EXCEPT !.page[pagePtr.i] = a.pg],
                                          pagePtr.i)]))))

\* alloc_var_part.  d is what the page pool would deliver, k which free index
\* entry the page reuses.  Result: ok (a pointer is returned), the key, the
\* state; S.fault is set where the page's insert fails for lack of room.
alloc_var_part(S, alloc_size, d, k) ==
  With(get_alloc_page(S, alloc_size + 1), LAMBDA g :
    IF g.fault # "none"
    THEN [ok |-> FALSE, key |-> NoKey, S |-> Fail(S, g.fault)]
    ELSE
    With(IF g.i = RNIL THEN get_empty_var_page(S, d) ELSE [i |-> g.i, S |-> S],
         LAMBDA pagePtr :
      IF pagePtr.i = RNIL
      THEN [ok |-> FALSE, key |-> NoKey, S |-> pagePtr.S]
      ELSE
      With(IF g.i = RNIL THEN InitVarPage(pagePtr.S, pagePtr.i) ELSE S, LAMBDA S1 :
      With(Var_alloc_record(S1.page[pagePtr.i], alloc_size, k), LAMBDA a :
        IF ~a.ok
        THEN [ok |-> FALSE, key |-> NoKey, S |-> Fail(S1, NoRoom)]
        ELSE [ok |-> TRUE,
              key |-> [m_page_no |-> pagePtr.i, m_page_idx |-> a.idx],
              S |-> update_free_page_list([S1 EXCEPT !.page[pagePtr.i] = a.pg],
                                          pagePtr.i)]))))

\* Faulty variant of alloc_var_rec: the variable part is allocated before the
\* result of the fixed-part allocation is looked at.
alloc_var_rec_var_part_first(S, alloc_size, r, d, k) ==
  IF r = 0
  THEN With(alloc_var_part(S, alloc_size, d, k), LAMBDA v :
         IF Fatal(v.S) THEN v ELSE [ok |-> FALSE, key |-> NoKey, S |-> v.S])
  ELSE
  With(alloc_var_part(alloc_fix_rec(S, r), alloc_size, d, k), LAMBDA v :
    IF Fatal(v.S)
    THEN v
    ELSE IF v.ok
    THEN [ok |-> TRUE, key |-> v.key, S |-> [v.S EXCEPT !.fix[r].ref = v.key]]
    ELSE [ok |-> FALSE, key |-> NoKey, S |-> free_fix_rec(v.S, r)])

\* Faulty variant of alloc_var_rec: the fixed part is kept when the variable
\* part cannot be allocated.
alloc_var_rec_no_rollback(S, alloc_size, r, d, k) ==
  IF r = 0
  THEN [ok |-> FALSE, key |-> NoKey, S |-> S]
  ELSE
  With(alloc_var_part(alloc_fix_rec(S, r), alloc_size, d, k), LAMBDA v :
    IF Fatal(v.S)
    THEN v
    ELSE IF v.ok
    THEN [ok |-> TRUE, key |-> v.key, S |-> [v.S EXCEPT !.fix[r].ref = v.key]]
    ELSE [ok |-> FALSE, key |-> NoKey, S |-> v.S])

\* alloc_var_rec.  r is the row the fixed-part allocator hands out, 0 when it
\* fails.
alloc_var_rec(S, alloc_size, r, d, k) ==
  IF r = 0
  THEN [ok |-> FALSE, key |-> NoKey, S |-> S]
  ELSE
  With(alloc_var_part(alloc_fix_rec(S, r), alloc_size, d, k), LAMBDA v :
    IF Fatal(v.S)
    THEN v
    ELSE IF v.ok
    THEN [ok |-> TRUE, key |-> v.key, S |-> [v.S EXCEPT !.fix[r].ref = v.key]]
    ELSE [ok |-> FALSE, key |-> NoKey, S |-> free_fix_rec(v.S, r)])

\* alloc_var_rowid: alloc_var_rec with alloc_fix_rowid for alloc_fix_rec.  r
\* is the row id the caller names, 0 when alloc_fix_rowid fails.
alloc_var_rowid(S, alloc_size, r, d, k) ==
  IF r = 0
  THEN [ok |-> FALSE, key |-> NoKey, S |-> S]
  ELSE
  With(alloc_var_part(alloc_fix_rowid(S, r), alloc_size, d, k), LAMBDA v :
    IF Fatal(v.S)
    THEN v
    ELSE IF v.ok
    THEN [ok |-> TRUE, key |-> v.key, S |-> [v.S EXCEPT !.fix[r].ref = v.key]]
    ELSE [ok |-> FALSE, key |-> NoKey, S |-> free_fix_rec(v.S, r)])

\* Variant of free_var_rec that releases a page whose last slot was freed
\* (the code left in the comment of lines 174-178): the page is taken out of
\* its free list and returned to the empty-page list.
free_var_rec_releases_page(S, r) ==
  With(S.fix[r].ref, LAMBDA ref :
  With(free_fix_rec(S, r), LAMBDA S1 :
    IF ~(ref.m_page_no \in Pages)
    THEN Fail(S1, "c_page_pool.getPtr: no such page")
    ELSE
    With(Var_free_record(S1.page[ref.m_page_no], ref.m_page_idx), LAMBDA f :
      IF ~f.ok
      THEN Fail(S1, "free_record: not a live entry")
      ELSE IF f.pg.free_space = DATA_WORDS - 1
      THEN [S1 EXCEPT
              !.page[ref.m_page_no] = [f.pg EXCEPT !.page_state = "ZEMPTY_MM",
                                                   !.list_index = MAX_FREE_LIST],
              !.free_var_page_array =
                 [L \in 0..(MAX_FREE_LIST - 1) |->
                    DLList_remove(S1.free_var_page_array[L], ref.m_page_no)],
              !.m_empty_pages = <<ref.m_page_no>> \o @]
      ELSE update_free_page_list([S1 EXCEPT !.page[ref.m_page_no] = f.pg],
                                 ref.m_page_no))))

\* Faulty variant of free_var_rec: the Var_part_ref is read out of the fixed
\* part after the fixed part has been freed.
free_var_rec_reads_late(S, r) ==
  With(free_fix_rec(S, r), LAMBDA S1 :
  With(S1.fix[r].ref, LAMBDA ref :
    IF ~(ref.m_page_no \in Pages)
    THEN Fail(S1, "c_page_pool.getPtr: no such page")
    ELSE
    With(Var_free_record(S1.page[ref.m_page_no], ref.m_page_idx), LAMBDA f :
      IF ~f.ok
      THEN Fail(S1, "free_record: not a live entry")
      ELSE update_free_page_list([S1 EXCEPT !.page[ref.m_page_no] = f.pg],
                                 ref.m_page_no))))

\* free_var_rec of the live row r: the reference is read, the fixed part
\* freed, the slot freed and its page re-filed.
free_var_rec(S, r) ==
  With(S.fix[r].ref, LAMBDA ref :
  With(free_fix_rec(S, r), LAMBDA S1 :
    IF ~(ref.m_page_no \in Pages)
    THEN Fail(S1, "c_page_pool.getPtr: no such page")
    ELSE
    With(Var_free_record(S1.page[ref.m_page_no], ref.m_page_idx), LAMBDA f :
      IF ~f.ok
      THEN Fail(S1, "free_record: not a live entry")
      ELSE IF f.pg.free_space > DATA_WORDS
      THEN Fail(S1, FreeSpaceAssert)
      ELSE update_free_page_list([S1 EXCEPT !.page[ref.m_page_no] = f.pg],
                                 ref.m_page_no))))

\* realloc_var_part of the live row r, whose variable part has oldsz words.
\* Each result names the branch taken (the code's jam() trace) in path:
\* "grow" in place with room behind the entry, "reorg" in place after a
\* reorganisation, "relocate".

\* Faulty variant of realloc_var_part_grow: after the reorganisation the
\* emptied entry is grown by add only (add += oldsz is left out).
realloc_var_part_grow_short(S, r, oldsz, add) ==
  With(S.fix[r].ref, LAMBDA oldref :
  With(S.page[oldref.m_page_no], LAMBDA pageP :
  With(Var_is_space_behind_entry(pageP, oldref.m_page_idx, add), LAMBDA behind :
  With(Var_reorg([Var_set_entry_len(pageP, oldref.m_page_idx, 0)
                    EXCEPT !.free_space = @ + oldsz]), LAMBDA packed :
    [ok |-> TRUE, key |-> oldref, path |-> IF behind THEN "grow" ELSE "reorg",
     S |-> update_free_page_list(
             [S EXCEPT !.page[oldref.m_page_no] =
                IF behind
                THEN Var_grow_entry(pageP, oldref.m_page_idx, add)
                ELSE Var_grow_entry(
                       Var_set_entry_offset(packed, oldref.m_page_idx,
                                            packed.insert_pos),
                       oldref.m_page_idx, add)],
             oldref.m_page_no)]))))

\* Faulty variant of realloc_var_part_grow: after the reorganisation the
\* entry's offset is not set to the new insert_pos (set_entry_offset is left
\* out).
realloc_var_part_grow_no_offset(S, r, oldsz, add) ==
  With(S.fix[r].ref, LAMBDA oldref :
  With(S.page[oldref.m_page_no], LAMBDA pageP :
  With(Var_is_space_behind_entry(pageP, oldref.m_page_idx, add), LAMBDA behind :
  With(Var_reorg([Var_set_entry_len(pageP, oldref.m_page_idx, 0)
                    EXCEPT !.free_space = @ + oldsz]), LAMBDA packed :
    [ok |-> TRUE, key |-> oldref, path |-> IF behind THEN "grow" ELSE "reorg",
     S |-> update_free_page_list(
             [S EXCEPT !.page[oldref.m_page_no] =
                IF behind
                THEN Var_grow_entry(pageP, oldref.m_page_idx, add)
                ELSE Var_grow_entry(packed, oldref.m_page_idx, add + oldsz)],
             oldref.m_page_no)]))))

\* Faulty variant of realloc_var_part_grow: the page is reorganised also when
\* there is room behind the entry.
realloc_var_part_grow_always_reorg(S, r, oldsz, add) ==
  With(S.fix[r].ref, LAMBDA oldref :
  With(S.page[oldref.m_page_no], LAMBDA pageP :
  With(Var_reorg([Var_set_entry_len(pageP, oldref.m_page_idx, 0)
                    EXCEPT !.free_space = @ + oldsz]), LAMBDA packed :
    [ok |-> TRUE, key |-> oldref, path |-> "reorg",
     S |-> update_free_page_list(
             [S EXCEPT !.page[oldref.m_page_no] =
                Var_grow_entry(
                  Var_set_entry_offset(packed, oldref.m_page_idx,
                                       packed.insert_pos),
                  oldref.m_page_idx, add + oldsz)],
             oldref.m_page_no)])))

\* realloc_var_part, the branch pageP->free_space >= add: the entry grows by
\* add words on its page, behind itself if there is room, else at the end of
\* the page after a reorganisation that leaves the entry out (its length set
\* to 0, its words counted free) and a growth by add + oldsz.
realloc_var_part_grow(S, r, oldsz, add) ==
  With(S.fix[r].ref, LAMBDA oldref :
  With(S.page[oldref.m_page_no], LAMBDA pageP :
  With(Var_is_space_behind_entry(pageP, oldref.m_page_idx, add), LAMBDA behind :
  With(Var_reorg([Var_set_entry_len(pageP, oldref.m_page_idx, 0)
                    EXCEPT !.free_space = @ + oldsz]), LAMBDA packed :
    [ok |-> TRUE, key |-> oldref, path |-> IF behind THEN "grow" ELSE "reorg",
     S |-> update_free_page_list(
             [S EXCEPT !.page[oldref.m_page_no] =
                IF behind
                THEN Var_grow_entry(pageP, oldref.m_page_idx, add)
                ELSE Var_grow_entry(
                       Var_set_entry_offset(packed, oldref.m_page_idx,
                                            packed.insert_pos),
                       oldref.m_page_idx, add + oldsz)],
             oldref.m_page_no)]))))

\* memcpy(new_var_ptr, src, 4*oldsz) and refptr->assign(&newref): the new slot
\* gets the old slot's content oe (nothing of it if the old slot has moved
\* since src was taken); a copy that runs past the page's free room (over)
\* overwrites the page's highest index word; the row's reference is rewritten.
CopyAndAssign(S, r, oe, srcValid, newref, oldsz, newsz, over) ==
  LET np == newref.m_page_no
      ni == newref.m_page_idx
      S3 == [S EXCEPT
               !.page[np].entries[ni].tag = IF srcValid THEN oe.tag ELSE 0,
               !.page[np].entries[ni].n =
                  IF srcValid THEN Min(oe.n, Min(oldsz, newsz)) ELSE 0]
      S4 == IF over
            THEN [S3 EXCEPT !.page[np].entries[S.page[np].high_index - 1] = FreeEntry]
            ELSE S3
  IN [S4 EXCEPT !.fix[r].ref = newref,
                !.fault = IF over THEN Overrun ELSE @]

\* Faulty variant of realloc_var_part_move: the old slot is not freed.
realloc_var_part_move_keeps_old(S, r, oldsz, newsz, d, k, ub) ==
  With(S.fix[r].ref, LAMBDA oldref :
  With(S.page[oldref.m_page_no].entries[oldref.m_page_idx], LAMBDA oe :
  With(alloc_var_part(S, newsz, d, k), LAMBDA v :
    IF Fatal(v.S) \/ ~v.ok
    THEN [ok |-> FALSE, key |-> NoKey, path |-> "relocate", S |-> v.S]
    ELSE [ok |-> TRUE, key |-> v.key, path |-> "relocate",
          S |-> update_free_page_list(
                  CopyAndAssign(v.S, r, oe, TRUE, v.key, oldsz, newsz, FALSE),
                  oldref.m_page_no)])))

\* realloc_var_part, the else branch: a slot of newsz words from
\* alloc_var_part, memcpy of oldsz words, the reference rewritten, the old
\* slot freed and its page re-filed.  ub chooses what the build makes of the
\* two places whose outcome the code does not fix: a failing ndbassert (fatal
\* in a debug build, skipped in a release build) and a memcpy of oldsz words
\* into a smaller slot that runs past the page's free room ("crash", or
\* "continue" with the page's highest index word overwritten).
realloc_var_part_move(S, r, oldsz, newsz, d, k, ub) ==
  With(S.fix[r].ref, LAMBDA oldref :
  With(S.page[oldref.m_page_no].entries[oldref.m_page_idx], LAMBDA oe :
  With(alloc_var_part(S, newsz, d, k), LAMBDA v :
    IF Fatal(v.S) \/ ~v.ok
    THEN [ok |-> FALSE, key |-> NoKey, path |-> "relocate", S |-> v.S]
    ELSE
    With(v.S.page[v.key.m_page_no], LAMBDA npg :
    With(oldsz > newsz + (DATA_WORDS - npg.high_index - npg.insert_pos),
         LAMBDA over :
      IF v.key.m_page_no = oldref.m_page_no /\ ub = "crash"
      THEN [ok |-> FALSE, key |-> NoKey, path |-> "relocate",
            S |-> Fail(v.S, "ndbassert(oldref.m_page_no != newref.m_page_no)")]
      ELSE IF over /\ ub = "crash"
      THEN [ok |-> FALSE, key |-> NoKey, path |-> "relocate",
            S |-> Fail(v.S, "memcpy: write past the page")]
      ELSE
      With(CopyAndAssign(
             v.S, r, oe,
             v.S.page[oldref.m_page_no].entries[oldref.m_page_idx].pos = oe.pos,
             v.key, oldsz, newsz, over), LAMBDA S5 :
      With(Var_free_record(S5.page[oldref.m_page_no], oldref.m_page_idx),
           LAMBDA f :
        IF ~f.ok
        THEN [ok |-> FALSE, key |-> NoKey, path |-> "relocate",
              S |-> Fail(S5, "free_record: not a live entry")]
        ELSE [ok |-> TRUE, key |-> v.key, path |-> "relocate",
              S |-> update_free_page_list(
                      [S5 EXCEPT !.page[oldref.m_page_no] = f.pg],
                      oldref.m_page_no)])))))))

\* realloc_var_part: Uint32 add = newsz - oldsz; in place when the page's
\* free_space >= add, else through a new slot.
realloc_var_part(S, r, oldsz, newsz, d, k, ub) ==
  With(Uint32_sub(newsz, oldsz), LAMBDA add :
    IF Uint32_le(add, S.page[S.fix[r].ref.m_page_no].free_space)
    THEN realloc_var_part_grow(S, r, oldsz, add.lo)
    ELSE realloc_var_part_move(S, r, oldsz, newsz, d, k, ub))

\* ------------------------------------------------------------ state machine
VARIABLES
  page,                 \* c_page_pool: page id -> page buffer
  free_var_page_array,  \* fragPtr->free_var_page_array[0..MAX_FREE_LIST-1]
  m_empty_pages,        \* fragPtr->m_empty_pages
  m_var_page_chunks,    \* fragPtr->m_var_page_chunks
  noOfVarPages,         \* fragPtr->noOfVarPages
  pool_used,            \* pages handed out by the page pool
  fix,                  \* the rows' fixed parts
  fault,                \* "none" or the fatal check that stopped the block
  last,                 \* the last operation: its name, arguments and result
  ops                   \* number of operations performed

vars == <<page, free_var_page_array, m_empty_pages, m_var_page_chunks,
          noOfVarPages, pool_used, fix, fault, last, ops>>

\* The block state as one record, and its write-back.
Cur ==
  [page |-> page, free_var_page_array |-> free_var_page_array,
   m_empty_pages |-> m_empty_pages, m_var_page_chunks |-> m_var_page_chunks,
   noOfVarPages |-> noOfVarPages, pool_used |-> pool_used, fix |-> fix,
   fault |-> fault]

\* A fatal check stops the block: nothing but the fault is recorded.
Commit(S) ==
  IF Fatal(S)
  THEN /\ fault' = S.fault
       /\ UNCHANGED <<page, free_var_page_array, m_empty_pages,
                      m_var_page_chunks, noOfVarPages, pool_used, fix>>
  ELSE /\ page' = S.page
       /\ free_var_page_array' = S.free_var_page_array
       /\ m_empty_pages' = S.m_empty_pages
       /\ m_var_page_chunks' = S.m_var_page_chunks
       /\ noOfVarPages' = S.noOfVarPages
       /\ pool_used' = S.pool_used
       /\ fix' = S.fix
       /\ fault' = S.fault

Res(x) == IF Fatal(x.S) THEN "crash" ELSE IF x.ok THEN "ok" ELSE "fail"

\* What is recorded of an operation: its name, the row, the sizes it was
\* called with, how it ended ("ok", "fail", "crash"), the branch it took, the
\* row's Var_part_ref before the call and the key the call returned.
Op(op, row, oldsz, newsz, res, path, old, key) ==
  [op |-> op, row |-> row, oldsz |-> oldsz, newsz |-> newsz, res |-> res,
   path |-> path, old |-> old, key |-> key]

NoOp == Op("none", 0, 0, 0, "ok", "", NoKey, NoKey)

Init ==
  /\ page = [q \in Pages |-> RawPage]
  /\ free_var_page_array = [i \in 0..(MAX_FREE_LIST - 1) |-> <<>>]
  /\ m_empty_pages = <<>>
  /\ m_var_page_chunks = RNIL
  /\ noOfVarPages = 0
  /\ pool_used = 0
  /\ fix = [r \in Rows |-> FreeFix]
  /\ fault = "none"
  /\ last = NoOp
  /\ ops = 0

FreeRows == {r \in Rows : ~fix[r].alloc}
LiveRows == {r \in Rows : fix[r].alloc}

\* The caller stores the row's data (tagged with the row) in the whole slot it
\* was given.
StoreRow(S, key, r) ==
  [S EXCEPT !.page[key.m_page_no].entries[key.m_page_idx].tag = r,
            !.page[key.m_page_no].entries[key.m_page_idx].n =
               S.page[key.m_page_no].entries[key.m_page_idx].len]

\* The inputs that cannot change what an operation does are fixed: the pool's
\* delivery d matters only when the pool is asked (no page has room and
\* m_empty_pages is empty), the index choice k only up to the number of free
\* index entries of a page.
PoolAsked(sz) ==
  m_empty_pages = <<>> /\ get_alloc_page(Cur, sz + 1).i = RNIL
Deliveries(sz) == IF PoolAsked(sz) THEN 0..PoolPages ELSE {0}
IdxChoices ==
  {k \in 1..MaxRows :
     k = 1 \/ \E q \in Pages : k <= Cardinality(FreeIdx(page[q]))}

\* alloc_var_rec: the fixed-part allocator picks a free row, or fails (0);
\* on success the caller stores the row.
AllocVarRec ==
  /\ fault = "none"
  /\ ops < MaxOps
  /\ ops' = ops + 1
  /\ \E sz \in RowSizes, r \in FreeRows \cup {0} :
     \E d \in Deliveries(sz), k \in IdxChoices :
       With(alloc_var_rec(Cur, sz, r, d, k), LAMBDA x :
          /\ Commit(IF Res(x) = "ok" THEN StoreRow(x.S, x.key, r) ELSE x.S)
          /\ last' = Op("alloc_var_rec", r, 0, sz, Res(x), "", NoKey, x.key))

\* alloc_var_rowid: the caller names a free row id, or alloc_fix_rowid fails
\* (0); on success the caller stores the row.
AllocVarRowid ==
  /\ fault = "none"
  /\ ops < MaxOps
  /\ ops' = ops + 1
  /\ \E sz \in Sizes, r \in FreeRows \cup {0} :
     \E d \in Deliveries(sz), k \in IdxChoices :
       With(alloc_var_rowid(Cur, sz, r, d, k), LAMBDA x :
          /\ Commit(IF Res(x) = "ok" THEN StoreRow(x.S, x.key, r) ELSE x.S)
          /\ last' = Op("alloc_var_rowid", r, 0, sz, Res(x), "", NoKey, x.key))

\* The live slot the fixed part of row r refers to, if it does.
RefLive(S, r) ==
  /\ S.fix[r].ref.m_page_no \in Pages
  /\ S.fix[r].ref.m_page_idx \in LiveIdx(S.page[S.fix[r].ref.m_page_no])

\* free_var_rec of a live row (recorded with the length of the freed slot).
FreeVarRec ==
  /\ fault = "none"
  /\ ops < MaxOps
  /\ ops' = ops + 1
  /\ \E r \in LiveRows :
       /\ RefLive(Cur, r)
       /\ With(free_var_rec(Cur, r), LAMBDA S :
          /\ Commit(S)
          /\ last' = Op("free_var_rec", r,
                         Var_get_entry_len(page[fix[r].ref.m_page_no],
                                           fix[r].ref.m_page_idx), 0,
                         IF Fatal(S) THEN "crash" ELSE "ok", "", fix[r].ref, NoKey))

\* realloc_var_part of a live row to a new size; the caller passes the
\* entry's current length as oldsz.
ReallocVarPart ==
  /\ fault = "none"
  /\ ops < MaxOps
  /\ ops' = ops + 1
  /\ \E r \in LiveRows, newsz \in Sizes :
     \E d \in Deliveries(newsz), k \in IdxChoices, ub \in {"crash", "continue"} :
       /\ RefLive(Cur, r)
       /\ With(Var_get_entry_len(page[fix[r].ref.m_page_no],
                                  fix[r].ref.m_page_idx), LAMBDA oldsz :
          With(realloc_var_part(Cur, r, oldsz, newsz, d, k, ub), LAMBDA x :
             /\ Commit(x.S)
             /\ last' = Op("realloc_var_part", r, oldsz, newsz, Res(x), x.path,
                            fix[r].ref, x.key)))

Next ==
  \/ AllocVarRec
  \/ AllocVarRowid
  \/ FreeVarRec
  \/ ReallocVarPart

Spec == Init /\ [][Next]_vars

\* ---------------------------------------------- calculate_free_list_impl
\* The classification on its own: the block is as constructed, the input is
\* any free_space value from 0 to the maximum of the last class, and the one
\* step applies calculate_free_list_impl to it.
MaxFreeSpace == c_max_list_size(MAX_FREE_LIST - 1)

InitClassify ==
  /\ page = [q \in Pages |-> RawPage]
  /\ free_var_page_array = [i \in 0..(MAX_FREE_LIST - 1) |-> <<>>]
  /\ m_empty_pages = <<>>
  /\ m_var_page_chunks = RNIL
  /\ noOfVarPages = 0
  /\ pool_used = 0
  /\ fix = [r \in Rows |-> FreeFix]
  /\ fault = "none"
  /\ ops = 0
  /\ \E fs \in 0..MaxFreeSpace :
       last = [op |-> "none", free_space_size |-> fs, class |-> NoClass]

Classify ==
  /\ last.op = "none"
  /\ last' = [op |-> "calculate_free_list_impl",
              free_space_size |-> last.free_space_size,
              class |-> calculate_free_list_impl(last.free_space_size)]
  /\ UNCHANGED <<page, free_var_page_array, m_empty_pages, m_var_page_chunks,
                 noOfVarPages, pool_used, fix, fault, ops>>

NextClassify == Classify

SpecClassify == InitClassify /\ [][NextClassify]_vars

\* ------------------------------------------- alloc_var_part's page search
\* The search of alloc_var_part for a page, loop iteration by loop iteration:
\* get_alloc_page (with the scan of calculate_free_list_impl) and, when it
\* returns RNIL, get_empty_var_page.  The fragment is given: the list of one
\* class holds up to ScanPages pages, more than the fallback scan visits.
ScanPages == 18

\* The sizes get_alloc_page is called with, one of each class.
ScanSizes == {301, 600, 3801, 5001}
\* What the page pool can deliver when asked for ChunkPages pages.
ScanDeliveries == {0, 1, 2, ChunkPages}

\* A variable-sized page in list li with free_space fs: one slot holds the
\* rest of the page.
ScanPage(fs, li) ==
  IF fs = DATA_WORDS - 1
  THEN [Var_init(RawPage) EXCEPT !.page_state = "ZTH_MM_FREE", !.list_index = li]
  ELSE [Var_init(RawPage) EXCEPT
          !.page_state = "ZTH_MM_FREE", !.list_index = li,
          !.free_space = fs, !.insert_pos = DATA_WORDS - 2 - fs,
          !.high_index = 2,
          !.entries = <<[free |-> FALSE, pos |-> 0, len |-> DATA_WORDS - 2 - fs,
                         tag |-> 0, n |-> DATA_WORDS - 2 - fs]>>]

\* The lists a request of class c looks at besides list c: those above, and
\* for the top class the one below (the list of its fallback scan).
OtherLists(c) ==
  IF c = MAX_FREE_LIST - 1 THEN {c - 1} ELSE (c + 1)..(MAX_FREE_LIST - 1)

\* The position in seq of x.
RECURSIVE PosIn(_, _)
PosIn(seq, x) == IF Head(seq) = x THEN 1 ELSE 1 + PosIn(Tail(seq), x)

\* The pages of the fragment: pages 1..n are list c in list order, of which
\* those from position k on (none when k = 0) have the most free space of
\* the class and the others the least; each list of H holds one page, with
\* the least free space of its class; with e, one more page is in
\* m_empty_pages.
ScanPagesOf(c, n, k, H, e) ==
  [q \in 1..(n + Cardinality(H) + (IF e THEN 1 ELSE 0)) |->
     IF q <= n
     THEN ScanPage(IF k # 0 /\ q >= k THEN c_max_list_size(c)
                   ELSE c_min_list_size(c), c)
     ELSE IF q <= n + Cardinality(H)
     THEN ScanPage(c_min_list_size(SetToSeq(H)[q - n]), SetToSeq(H)[q - n])
     ELSE [RawPage EXCEPT !.page_state = "ZEMPTY_MM"]]

ScanListsOf(c, n, H) ==
  [L \in 0..(MAX_FREE_LIST - 1) |->
     IF L = c THEN Run(1, n)
     ELSE IF L \in H THEN <<n + PosIn(SetToSeq(H), L)>>
     ELSE <<>>]

InitScan ==
  \E a \in ScanSizes, n \in 0..ScanPages, e \in BOOLEAN :
  \E k \in 0..n, H \in SUBSET OtherLists(calculate_free_list_impl(a)) :
    /\ page = ScanPagesOf(calculate_free_list_impl(a), n, k, H, e)
    /\ free_var_page_array = ScanListsOf(calculate_free_list_impl(a), n, H)
    /\ m_empty_pages = IF e THEN <<n + Cardinality(H) + 1>> ELSE <<>>
    /\ m_var_page_chunks = IF n + Cardinality(H) > 0 \/ e THEN 1 ELSE RNIL
    /\ noOfVarPages = n + Cardinality(H) + (IF e THEN 1 ELSE 0)
    /\ pool_used = n + Cardinality(H) + (IF e THEN 1 ELSE 0)
    /\ fix = [r \in Rows |-> FreeFix]
    /\ fault = "none"
    /\ ops = 0
    /\ last = [op |-> "alloc_var_part", pc |-> "calculate_free_list_impl",
               alloc_size |-> a, start_index |-> 0, i |-> 0, loop |-> 0,
               pos |-> 0, returned |-> FALSE, page |-> RNIL, via |-> "",
               cnt |-> 0, ret |-> RNIL, steps |-> 0]

ScanFrame ==
  /\ UNCHANGED <<free_var_page_array, fix, ops>>

\* Faulty variant of ScanCalc: get_alloc_page starts its loop over the lists
\* at the class of alloc_size itself.
ScanCalc_own_first ==
  /\ last.pc = "calculate_free_list_impl"
  /\ IF last.i < MAX_FREE_LIST
     THEN /\ fault' = fault
          /\ IF last.alloc_size <= c_max_list_size(last.i)
             THEN last' = [last EXCEPT
                             !.pc = "get_alloc_page: lists",
                             !.start_index = IF last.i = 0 THEN 1 ELSE last.i,
                             !.i = last.i,
                             !.steps = @ + 1]
             ELSE last' = [last EXCEPT !.i = @ + 1, !.steps = @ + 1]
     ELSE /\ fault' = "calculate_free_list_impl: ndbrequire(false)"
          /\ last' = [last EXCEPT !.pc = "done", !.steps = @ + 1]
  /\ ScanFrame
  /\ UNCHANGED <<page, m_empty_pages, m_var_page_chunks, noOfVarPages, pool_used>>

\* calculate_free_list_impl(alloc_size), one iteration of its loop; on return
\* get_alloc_page sets start_index.
ScanCalc ==
  /\ last.pc = "calculate_free_list_impl"
  /\ IF last.i < MAX_FREE_LIST
     THEN /\ fault' = fault
          /\ IF last.alloc_size <= c_max_list_size(last.i)
             THEN last' = [last EXCEPT
                             !.pc = "get_alloc_page: lists",
                             !.start_index = IF last.i = MAX_FREE_LIST - 1
                                             THEN last.i ELSE last.i + 1,
                             !.i = IF last.i = MAX_FREE_LIST - 1
                                   THEN last.i ELSE last.i + 1,
                             !.steps = @ + 1]
             ELSE last' = [last EXCEPT !.i = @ + 1, !.steps = @ + 1]
     ELSE /\ fault' = "calculate_free_list_impl: ndbrequire(false)"
          /\ last' = [last EXCEPT !.pc = "done", !.steps = @ + 1]
  /\ ScanFrame
  /\ UNCHANGED <<page, m_empty_pages, m_var_page_chunks, noOfVarPages, pool_used>>

\* get_alloc_page, one iteration of the loop over the lists from start_index.
ScanLists ==
  /\ last.pc = "get_alloc_page: lists"
  /\ IF last.i < MAX_FREE_LIST
     THEN /\ fault' = fault
          /\ IF free_var_page_array[last.i] # <<>>
             THEN last' = [last EXCEPT
                             !.pc = "done", !.returned = TRUE, !.via = "lists",
                             !.page = Head(free_var_page_array[last.i]),
                             !.ret = Head(free_var_page_array[last.i]),
                             !.steps = @ + 1]
             ELSE last' = [last EXCEPT !.i = @ + 1, !.steps = @ + 1]
     ELSE IF last.start_index > 0
     THEN /\ fault' = fault
          /\ last' = [last EXCEPT !.pc = "get_alloc_page: fallback",
                                  !.i = last.start_index - 1,
                                  !.pos = 1, !.loop = 0, !.steps = @ + 1]
     ELSE /\ fault' = "get_alloc_page: ndbrequire(start_index > 0)"
          /\ last' = [last EXCEPT !.pc = "done", !.steps = @ + 1]
  /\ ScanFrame
  /\ UNCHANGED <<page, m_empty_pages, m_var_page_chunks, noOfVarPages, pool_used>>

\* Faulty variant of ScanFallback: the loop over the list has no limit of 16
\* pages.
ScanFallback_unbounded ==
  /\ last.pc = "get_alloc_page: fallback"
  /\ IF last.pos <= Len(free_var_page_array[last.i])
     THEN IF page[free_var_page_array[last.i][last.pos]].free_space >= last.alloc_size
          THEN last' = [last EXCEPT
                          !.pc = "done", !.returned = TRUE, !.via = "fallback",
                          !.page = free_var_page_array[last.i][last.pos],
                          !.ret = free_var_page_array[last.i][last.pos],
                          !.steps = @ + 1]
          ELSE last' = [last EXCEPT !.loop = @ + 1, !.pos = @ + 1, !.steps = @ + 1]
     ELSE last' = [last EXCEPT !.pc = "get_empty_var_page", !.returned = TRUE,
                               !.via = "none", !.page = RNIL, !.steps = @ + 1]
  /\ ScanFrame
  /\ UNCHANGED <<page, m_empty_pages, m_var_page_chunks, noOfVarPages,
                 pool_used, fault>>

\* get_alloc_page, one iteration of the loop over the list below start_index.
ScanFallback ==
  /\ last.pc = "get_alloc_page: fallback"
  /\ IF last.pos <= Len(free_var_page_array[last.i]) /\ last.loop < FallbackScanLimit
     THEN IF page[free_var_page_array[last.i][last.pos]].free_space >= last.alloc_size
          THEN last' = [last EXCEPT
                          !.pc = "done", !.returned = TRUE, !.via = "fallback",
                          !.page = free_var_page_array[last.i][last.pos],
                          !.ret = free_var_page_array[last.i][last.pos],
                          !.steps = @ + 1]
          ELSE last' = [last EXCEPT !.loop = @ + 1, !.pos = @ + 1, !.steps = @ + 1]
     ELSE last' = [last EXCEPT !.pc = "get_empty_var_page", !.returned = TRUE,
                               !.via = "none", !.page = RNIL, !.steps = @ + 1]
  /\ ScanFrame
  /\ UNCHANGED <<page, m_empty_pages, m_var_page_chunks, noOfVarPages,
                 pool_used, fault>>

\* get_empty_var_page up to its loop: the front of m_empty_pages, or the
\* request to the page pool, which delivers cnt pages.
ScanGetEmpty ==
  /\ last.pc = "get_empty_var_page"
  /\ IF m_empty_pages # <<>>
     THEN /\ last' = [last EXCEPT !.pc = "done", !.ret = Head(m_empty_pages),
                                  !.steps = @ + 1]
          /\ m_empty_pages' = Tail(m_empty_pages)
          /\ UNCHANGED <<page, noOfVarPages, pool_used>>
     ELSE \E d \in ScanDeliveries :
            /\ last' = [last EXCEPT
                          !.pc = IF Min(ChunkPages, d) = 0 THEN "done"
                                 ELSE "get_empty_var_page: pages",
                          !.cnt = Min(ChunkPages, d),
                          !.i = 0,
                          !.ret = IF Min(ChunkPages, d) = 0 THEN RNIL
                                  ELSE pool_used + 1,
                          !.steps = @ + 1]
            /\ noOfVarPages' = noOfVarPages + Min(ChunkPages, d)
            /\ pool_used' = pool_used + Min(ChunkPages, d)
            /\ page' = [q \in 1..(pool_used + Min(ChunkPages, d)) |->
                          IF q <= pool_used THEN page[q] ELSE RawPage]
            /\ UNCHANGED m_empty_pages
  /\ ScanFrame
  /\ UNCHANGED <<m_var_page_chunks, fault>>

\* get_empty_var_page, one iteration of the loop over the delivered pages;
\* after the loop the pages behind the first go to m_empty_pages and the
\* first becomes the head of the chunk list.
ScanInitPages ==
  /\ last.pc = "get_empty_var_page: pages"
  /\ IF last.i < last.cnt
     THEN /\ page' = [page EXCEPT ![last.ret + last.i].page_state = "ZEMPTY_MM"]
          /\ last' = [last EXCEPT !.i = @ + 1, !.steps = @ + 1]
          /\ UNCHANGED <<m_empty_pages, m_var_page_chunks>>
     ELSE /\ page' = [page EXCEPT ![last.ret].chunk_size = last.cnt,
                                  ![last.ret].next_chunk = m_var_page_chunks]
          /\ m_empty_pages' = IF last.cnt > 1
                              THEN Run(last.ret + 1, last.cnt - 1) \o m_empty_pages
                              ELSE m_empty_pages
          /\ m_var_page_chunks' = last.ret
          /\ last' = [last EXCEPT !.pc = "done", !.steps = @ + 1]
  /\ ScanFrame
  /\ UNCHANGED <<noOfVarPages, pool_used, fault>>

NextScan ==
  \/ ScanCalc
  \/ ScanLists
  \/ ScanFallback
  \/ ScanGetEmpty
  \/ ScanInitPages

SpecScan == InitScan /\ [][NextScan]_vars

\* The search runs to its end: nothing in it waits.
SpecScanLive == SpecScan /\ WF_vars(NextScan)

\* ------------------------- alloc_var_rec / alloc_var_rowid, line by line
\* One call after the other of alloc_var_rec or alloc_var_rowid on a fresh
\* fragment, stepped line by line.  The call's frame is kept in last: the
\* table's m_offsets[MM].m_fix_header_size (a Uint32), its value when the
\* call was entered (before), the value the fixed-part allocator worked with
\* (seen), the row it handed out, and how the call ended.

\* The header sizes a table starts with: small ones, and the largest Uint32s.
FixHeaderSizes ==
  {[hi |-> 0, lo |-> 0], [hi |-> 0, lo |-> 5],
   [hi |-> Uint16Mod - 1, lo |-> Uint16Mod - 2]}

NoSeen == [hi |-> 0 - 1, lo |-> 0 - 1]

InitFix ==
  \E h \in FixHeaderSizes :
    /\ page = [q \in Pages |-> RawPage]
    /\ free_var_page_array = [i \in 0..(MAX_FREE_LIST - 1) |-> <<>>]
    /\ m_empty_pages = <<>>
    /\ m_var_page_chunks = RNIL
    /\ noOfVarPages = 0
    /\ pool_used = 0
    /\ fix = [r \in Rows |-> FreeFix]
    /\ fault = "none"
    /\ ops = 0
    /\ last = [op |-> "none", pc |-> "done", m_fix_header_size |-> h,
               before |-> h, seen |-> NoSeen, alloc_size |-> 0, row |-> 0,
               res |-> "ok", key |-> NoKey]

FixFrame ==
  UNCHANGED <<page, free_var_page_array, m_empty_pages, m_var_page_chunks,
              noOfVarPages, pool_used>>

\* The call is entered and m_fix_header_size += XXX.
FixRaise ==
  /\ last.pc = "done" /\ fault = "none" /\ ops < MaxOps
  /\ ops' = ops + 1
  /\ \E op \in {"alloc_var_rec", "alloc_var_rowid"}, sz \in Sizes :
       last' = [op |-> op, pc |-> "alloc_fix_rec",
                m_fix_header_size |-> Uint32_plus(last.m_fix_header_size, XXX),
                before |-> last.m_fix_header_size, seen |-> NoSeen,
                alloc_size |-> sz, row |-> 0, res |-> "", key |-> NoKey]
  /\ FixFrame
  /\ UNCHANGED <<fix, fault>>

\* alloc_fix_rec / alloc_fix_rowid: works with the header size it finds, and
\* hands out a free row or fails (0).
FixAllocFix ==
  /\ last.pc = "alloc_fix_rec"
  /\ \E r \in FreeRows \cup {0} :
       /\ fix' = IF r = 0 THEN fix
                 ELSE IF last.op = "alloc_var_rec"
                 THEN alloc_fix_rec(Cur, r).fix
                 ELSE alloc_fix_rowid(Cur, r).fix
       /\ last' = [last EXCEPT !.pc = "restore", !.row = r,
                               !.seen = last.m_fix_header_size]
  /\ FixFrame
  /\ UNCHANGED <<fault, ops>>

\* Faulty variant of FixRestore: the header size is restored only behind the
\* test of the pointer, so the early return leaves it raised.
FixRestore_behind_test ==
  /\ last.pc = "restore"
  /\ last' = [last EXCEPT
                !.pc = "test",
                !.m_fix_header_size = IF last.row = 0 THEN @
                                      ELSE Uint32_minus(@, XXX)]
  /\ FixFrame
  /\ UNCHANGED <<fix, fault, ops>>

\* m_fix_header_size -= XXX.
FixRestore ==
  /\ last.pc = "restore"
  /\ last' = [last EXCEPT !.pc = "test",
                          !.m_fix_header_size = Uint32_minus(@, XXX)]
  /\ FixFrame
  /\ UNCHANGED <<fix, fault, ops>>

\* if (ptr == 0) return 0.
FixReturnNull ==
  /\ last.pc = "test" /\ last.row = 0
  /\ last' = [last EXCEPT !.pc = "done", !.res = "fail"]
  /\ FixFrame
  /\ UNCHANGED <<fix, fault, ops>>

\* alloc_var_part, then the reference is stored in the fixed part, or the
\* fixed part is freed and 0 returned.
FixAllocVarPart ==
  /\ last.pc = "test" /\ last.row # 0
  /\ \E d \in Deliveries(last.alloc_size), k \in IdxChoices :
       With(alloc_var_part(Cur, last.alloc_size, d, k), LAMBDA v :
         /\ Commit(IF Fatal(v.S) THEN v.S
                   ELSE IF v.ok
                   THEN StoreRow([v.S EXCEPT !.fix[last.row].ref = v.key],
                                 v.key, last.row)
                   ELSE free_fix_rec(v.S, last.row))
         /\ last' = [last EXCEPT !.pc = "done", !.res = Res(v), !.key = v.key])
  /\ UNCHANGED ops

NextFix ==
  \/ FixRaise
  \/ FixAllocFix
  \/ FixRestore
  \/ FixReturnNull
  \/ FixAllocVarPart

SpecFix == InitFix /\ [][NextFix]_vars

\* ------------------------------------------- get_alloc_page's start index
\* get_alloc_page applied once to every request size that classifies, on a
\* fragment that has no page or one page, filed in list L.  last holds the
\* request, its class, the start index and what get_alloc_page returned.
InitStart ==
  \E a \in 0..MaxFreeSpace, L \in 0..MAX_FREE_LIST :
    /\ page = [q \in Pages |->
                 IF q = 1 /\ L < MAX_FREE_LIST
                 THEN [ScanPage(c_min_list_size(L), L) EXCEPT !.chunk_size = 1]
                 ELSE RawPage]
    /\ free_var_page_array = [i \in 0..(MAX_FREE_LIST - 1) |->
                                IF i = L THEN <<1>> ELSE <<>>]
    /\ m_empty_pages = <<>>
    /\ m_var_page_chunks = IF L < MAX_FREE_LIST THEN 1 ELSE RNIL
    /\ noOfVarPages = IF L < MAX_FREE_LIST THEN 1 ELSE 0
    /\ pool_used = IF L < MAX_FREE_LIST THEN 1 ELSE 0
    /\ fix = [r \in Rows |-> FreeFix]
    /\ fault = "none"
    /\ ops = 0
    /\ last = [op |-> "none", alloc_size |-> a, class |-> NoClass,
               start_index |-> 0, i |-> RNIL]

GetAllocPage ==
  /\ last.op = "none"
  /\ last' = [op |-> "get_alloc_page",
              alloc_size |-> last.alloc_size,
              class |-> calculate_free_list_impl(last.alloc_size),
              start_index |-> start_index_of(calculate_free_list_impl(last.alloc_size)),
              i |-> get_alloc_page(Cur, last.alloc_size).i]
  /\ fault' = get_alloc_page(Cur, last.alloc_size).fault
  /\ UNCHANGED <<page, free_var_page_array, m_empty_pages, m_var_page_chunks,
                 noOfVarPages, pool_used, fix, ops>>

NextStart == GetAllocPage

SpecStart == InitStart /\ [][NextStart]_vars

\* ------------------------------------------------------------- properties
\* The initialised variable-sized pages of the fragment.
VarPages == {q \in Pages : page[q].page_state = "ZTH_MM_FREE"}
\* The pages the fragment has obtained from the page pool.
Obtained == 1..pool_used
\* The free lists page q is a member of.
ListsOf(q) ==
  {i \in 0..(MAX_FREE_LIST - 1) : DLList_member(free_var_page_array[i], q)}
\* The list_index that goes with a free_space: its class, or MAX_FREE_LIST
\* (in no list) below the smallest class minimum.
ListIndexOf(free_space) ==
  IF free_space < c_min_list_size(0) THEN MAX_FREE_LIST
  ELSE calculate_free_list_impl(free_space)
\* The free_space a page has before an allocation: a page that is not yet
\* initialised counts with the free_space of an initialised empty page.
FreeBefore(q) ==
  IF q \in VarPages THEN page[q].free_space ELSE DATA_WORDS - 1
IsAlloc(l) == l.op \in {"alloc_var_rec", "alloc_var_rowid"}

\* C1, as stated: after every completed operation every variable-sized page
\* has list_index equal to calculate_free_list_impl(free_space).
C1_ListIndexIsComputedClass ==
  \A q \in VarPages :
    page[q].list_index = calculate_free_list_impl(page[q].free_space)

\* C1, amended: after every completed operation every variable-sized page has
\* list_index equal to calculate_free_list_impl(free_space) when free_space
\* is at least the smallest class minimum (200), and equal to MAX_FREE_LIST
\* (the page is in no list) when free_space is below it.
C1_ListIndexIsClassOrUnlisted ==
  \A q \in VarPages : page[q].list_index = ListIndexOf(page[q].free_space)

\* C1, the case: after an operation one page is unlisted (free_space below
\* 200) and another one has been re-filed below the top class.
C1_Witness ==
  /\ last.op # "none"
  /\ \E q \in VarPages :
       page[q].free_space < c_min_list_size(0) /\ page[q].list_index = MAX_FREE_LIST
  /\ \E q \in VarPages : page[q].list_index < MAX_FREE_LIST - 1

\* C2: whenever get_alloc_page(min_size) returns a page, that page has
\* free_space >= min_size, and alloc_var_part never inserts into a page with
\* less room than the requested size.
C2_AllocPageHasRoom ==
  /\ \A sz \in Sizes :
       With(get_alloc_page(Cur, sz + 1), LAMBDA g :
         g.i # RNIL => page[g.i].free_space >= sz + 1)
  /\ fault # NoRoom

\* C3: when alloc_var_rec or alloc_var_rowid got a fixed part and the
\* variable-part allocation then fails, the call returns failure with the
\* fixed parts (the set of allocated ones, and their references) as before.
C3_FixedPartRolledBack ==
  [][(IsAlloc(last') /\ last'.row # 0 /\ last'.res = "fail")
       => /\ {r \in Rows : fix'[r].alloc} = {r \in Rows : fix[r].alloc}
          /\ fix' = fix]_vars

\* C3, the case: an alloc_var_rec or alloc_var_rowid got the fixed part of a
\* row and failed on the variable part.
C3_Witness ==
  IsAlloc(last) /\ last.row # 0 /\ last.res = "fail" /\ ~fix[last.row].alloc

\* C4: a successful alloc_var_part of size words returns the key of a live
\* slot of exactly size words on the hosting page, and leaves that page's
\* free_space lower than before the call by at least size.  The call is made
\* in every state in which the block still takes operations.
C4_AllocatedSlot ==
  (fault = "none" /\ ops < MaxOps) =>
    \A sz \in Sizes : \A d \in Deliveries(sz), k \in IdxChoices :
      With(alloc_var_part(Cur, sz, d, k), LAMBDA v :
        (v.ok /\ ~Fatal(v.S)) =>
           /\ v.key.m_page_no \in Pages
           /\ v.key.m_page_idx \in LiveIdx(v.S.page[v.key.m_page_no])
           /\ Var_get_entry_len(v.S.page[v.key.m_page_no], v.key.m_page_idx) = sz
           /\ v.S.page[v.key.m_page_no].free_space + sz
                <= FreeBefore(v.key.m_page_no))

\* C4, the case: an allocation succeeded on a page that held a slot already.
C4_Witness ==
  /\ IsAlloc(last) /\ last.res = "ok"
  /\ last.key.m_page_idx \in LiveIdx(page[last.key.m_page_no])
  /\ Var_get_entry_len(page[last.key.m_page_no], last.key.m_page_idx) = last.newsz
  /\ Cardinality(LiveIdx(page[last.key.m_page_no])) >= 2

\* C5: after any sequence of operations the fixed part of every live row
\* references a live variable-part slot, and no two live rows reference the
\* same slot.
C5_RowsReferenceLiveSlots ==
  /\ \A r \in LiveRows : RefLive(Cur, r)
  /\ \A r1, r2 \in LiveRows : r1 # r2 => fix[r1].ref # fix[r2].ref

\* C6: every page obtained from the page pool is in exactly one of: one free
\* list, no list (initialised, list_index == MAX_FREE_LIST), the empty-page
\* list; no page is in two free lists or twice in one, and none is both in
\* the empty-page list and in a free list.
C6_PageInOnePlace ==
  /\ \A q \in Obtained :
       LET inEmpty == DLList_member(m_empty_pages, q)
           unlisted == q \in VarPages /\ page[q].list_index = MAX_FREE_LIST
       IN /\ Cardinality(ListsOf(q)) <= 1
          /\ inEmpty => ListsOf(q) = {} /\ ~(q \in VarPages)
          /\ unlisted => ListsOf(q) = {}
          /\ ListsOf(q) # {} \/ inEmpty \/ unlisted
  /\ \A i \in 0..(MAX_FREE_LIST - 1) :
       Cardinality(SeqSet(free_var_page_array[i])) = Len(free_var_page_array[i])
  /\ Cardinality(SeqSet(m_empty_pages)) = Len(m_empty_pages)

\* C6, the case: at one time one page is in a free list, one is unlisted and
\* one is in the empty-page list.
C6_Witness ==
  /\ \E q \in Obtained : ListsOf(q) # {}
  /\ \E q \in Obtained : q \in VarPages /\ page[q].list_index = MAX_FREE_LIST
  /\ m_empty_pages # <<>>

\* C7: when the requested size exceeds the free space of every page and no
\* page can be minted (empty-page list empty, the pool delivers nothing),
\* alloc_var_part returns failure: no fatal check, no insert into a page that
\* lacks the room.
C7_ExhaustedAllocFails ==
  fault = "none" =>
    \A sz \in Sizes :
      ((\A q \in VarPages : page[q].free_space < sz) /\ m_empty_pages = <<>>)
        => With(alloc_var_part(Cur, sz, 0, 1), LAMBDA v :
             ~v.ok /\ v.S.fault = "none")

\* C8: realloc_var_part fails only when the old page lacks the room for the
\* growth and alloc_var_part cannot obtain a page; in every other case it
\* succeeds; when it fails nothing has changed.
C8_ReallocFailsOnlyOutOfPages ==
  [][last'.op = "realloc_var_part" =>
       LET p == fix[last'.row].ref.m_page_no
           lacksRoom == /\ last'.newsz > last'.oldsz
                        /\ page[p].free_space < last'.newsz - last'.oldsz
           noPage == /\ m_empty_pages = <<>>
                     /\ get_alloc_page(Cur, last'.newsz + 1).i = RNIL
       IN \/ last'.res = "ok"
          \/ /\ last'.res = "fail"
             /\ lacksRoom
             /\ noPage
             /\ UNCHANGED <<page, free_var_page_array, m_empty_pages,
                            m_var_page_chunks, noOfVarPages, pool_used, fix>>]_vars

\* C9: when the old page's free_space is smaller than the growth newsz - oldsz,
\* a successful realloc_var_part relocates: the row's reference is rewritten
\* to the key of a new live slot of newsz words whose first oldsz words are
\* the old content, the old slot is no longer live and the old page is filed
\* according to its new free_space.
C9_Relocation ==
  [][(/\ last'.op = "realloc_var_part" /\ last'.res = "ok"
      /\ last'.newsz > last'.oldsz
      /\ page[fix[last'.row].ref.m_page_no].free_space < last'.newsz - last'.oldsz)
       => LET r == last'.row
              old == fix[r].ref
              new == fix'[r].ref
              oe == page[old.m_page_no].entries[old.m_page_idx]
              oldpg == page'[old.m_page_no]
          IN /\ last'.path = "relocate"
             /\ new # old /\ new = last'.key
             /\ new.m_page_no \in Pages
             /\ new.m_page_idx \in LiveIdx(page'[new.m_page_no])
             /\ LET ne == page'[new.m_page_no].entries[new.m_page_idx]
                IN ne.len = last'.newsz /\ ne.tag = oe.tag /\ ne.n = oe.n
             /\ ~(old.m_page_idx \in LiveIdx(oldpg))
             /\ oldpg.free_space >= page[old.m_page_no].free_space + last'.oldsz
             /\ oldpg.list_index = ListIndexOf(oldpg.free_space)
             /\ \A i \in 0..(MAX_FREE_LIST - 1) :
                  DLList_member(free_var_page_array'[i], old.m_page_no)
                    <=> i = oldpg.list_index]_vars

\* C9, the case: a realloc_var_part that grew a row's variable part went
\* through the relocation and succeeded.
C9_Witness ==
  /\ last.op = "realloc_var_part" /\ last.res = "ok" /\ last.path = "relocate"
  /\ last.newsz > last.oldsz
  /\ last.key # last.old
  /\ fix[last.row].ref = last.key

\* C10: when the page's free_space is at least the growth newsz - oldsz,
\* realloc_var_part grows the slot on its page, with or without a
\* reorganisation: same key, reference not rewritten, entry length newsz,
\* free_space lower by exactly newsz - oldsz.
C10_GrowInPlace ==
  [][(/\ last'.op = "realloc_var_part"
      /\ last'.newsz >= last'.oldsz
      /\ page[fix[last'.row].ref.m_page_no].free_space >= last'.newsz - last'.oldsz)
       => LET r == last'.row
              old == fix[r].ref
              p == old.m_page_no
          IN /\ last'.res = "ok"
             /\ last'.path \in {"grow", "reorg"}
             /\ last'.key = old
             /\ fix'[r].ref = old
             /\ old.m_page_idx \in LiveIdx(page'[p])
             /\ Var_get_entry_len(page'[p], old.m_page_idx) = last'.newsz
             /\ page'[p].free_space =
                  page[p].free_space - (last'.newsz - last'.oldsz)]_vars

\* C10, the case: a realloc_var_part grew a slot on its page after a
\* reorganisation.
C10_Witness ==
  /\ last.op = "realloc_var_part" /\ last.res = "ok" /\ last.path = "reorg"
  /\ last.newsz > last.oldsz
  /\ last.key = last.old

\* The live slots of a page lie apart from each other, below insert_pos, and
\* insert_pos lies below the index words.
NoOverlap(pg) ==
  /\ \A i, j \in LiveIdx(pg) :
       i # j => \/ pg.entries[i].pos + pg.entries[i].len <= pg.entries[j].pos
                \/ pg.entries[j].pos + pg.entries[j].len <= pg.entries[i].pos
  /\ \A i \in LiveIdx(pg) : pg.entries[i].pos + pg.entries[i].len <= pg.insert_pos
  /\ pg.insert_pos + pg.high_index <= DATA_WORDS
\* The content of a slot: the data in its first n words.
Content(e) == [tag |-> e.tag, n |-> e.n]

\* C11: when realloc_var_part grows a slot through a page reorganisation, the
\* grown slot's first oldsz words are its content before the call, and every
\* other live slot of the page keeps its index, its length and its data (no
\* slot is overwritten: the slots lie apart after the call).
C11_ReorgKeepsData ==
  [][(last'.op = "realloc_var_part" /\ last'.res = "ok" /\ last'.path = "reorg")
       => LET p == fix[last'.row].ref.m_page_no
              idx == fix[last'.row].ref.m_page_idx
          IN /\ LiveIdx(page'[p]) = LiveIdx(page[p])
             /\ Content(page'[p].entries[idx]) = Content(page[p].entries[idx])
             /\ page[p].entries[idx].n <= last'.oldsz
             /\ \A j \in LiveIdx(page[p]) \ {idx} :
                  /\ page'[p].entries[j].len = page[p].entries[j].len
                  /\ Content(page'[p].entries[j]) = Content(page[p].entries[j])
             /\ NoOverlap(page'[p])]_vars

\* C11, the case: a slot was grown through a reorganisation on a page that
\* holds another live slot.
C11_Witness ==
  /\ last.op = "realloc_var_part" /\ last.res = "ok" /\ last.path = "reorg"
  /\ last.newsz > last.oldsz
  /\ Cardinality(LiveIdx(page[last.key.m_page_no])) >= 2

\* C12: when there is space directly behind the entry for the growth,
\* realloc_var_part does not reorganise: the offsets, lengths and contents of
\* all other slots of the page and the grown slot's own offset are unchanged.
C12_GrowBehindKeepsPage ==
  [][(/\ last'.op = "realloc_var_part"
      /\ last'.newsz >= last'.oldsz
      /\ page[fix[last'.row].ref.m_page_no].free_space >= last'.newsz - last'.oldsz
      /\ Var_is_space_behind_entry(page[fix[last'.row].ref.m_page_no],
                                   fix[last'.row].ref.m_page_idx,
                                   last'.newsz - last'.oldsz))
       => LET p == fix[last'.row].ref.m_page_no
              idx == fix[last'.row].ref.m_page_idx
          IN /\ last'.res = "ok" /\ last'.path = "grow"
             /\ Len(page'[p].entries) = Len(page[p].entries)
             /\ \A j \in 1..Len(page[p].entries) :
                  j # idx => page'[p].entries[j] = page[p].entries[j]
             /\ page'[p].entries[idx].pos = page[p].entries[idx].pos
             /\ Content(page'[p].entries[idx]) = Content(page[p].entries[idx])]_vars

\* C12, the case: a slot was grown behind itself on a page that holds another
\* live slot.
C12_Witness ==
  /\ last.op = "realloc_var_part" /\ last.res = "ok" /\ last.path = "grow"
  /\ last.newsz > last.oldsz
  /\ Cardinality(LiveIdx(page[last.key.m_page_no])) >= 2

\* C13: a realloc_var_part call with newsz < oldsz is handled in place on the
\* same page: it succeeds, returns the same key, allocates or relocates no
\* page, and never reports failure.
C13_ShrinkInPlace ==
  [][(last'.op = "realloc_var_part" /\ last'.newsz < last'.oldsz)
       => /\ last'.res = "ok"
          /\ last'.path \in {"grow", "reorg"}
          /\ last'.key = last'.old
          /\ fix'[last'.row].ref = fix[last'.row].ref
          /\ pool_used' = pool_used
          /\ noOfVarPages' = noOfVarPages]_vars

\* C14: growing a slot in place and then shrinking it back to its length
\* before the growth restores the page's free_space, whether or not the
\* growth reorganised the page.
C14_RoundTripRestoresFreeSpace ==
  [][(/\ last.op = "realloc_var_part" /\ last.res = "ok"
      /\ last.path \in {"grow", "reorg"} /\ last.newsz > last.oldsz
      /\ last'.op = "realloc_var_part" /\ last'.row = last.row
      /\ last'.newsz = last.oldsz /\ ops' = ops + 1)
       => /\ last'.res = "ok"
          /\ page'[last.key.m_page_no].free_space
               = page[last.key.m_page_no].free_space + (last.newsz - last.oldsz)]_vars

\* The request sizes get_alloc_page is probed with: the boundaries of the
\* classes and the sizes alloc_var_part asks for.
ProbeSizes ==
  {1, c_min_list_size(0), c_min_list_size(1), c_min_list_size(2),
   c_min_list_size(3)} \cup {sz + 1 : sz \in Sizes}
\* A request size for which get_alloc_page starts its search at list li: one
\* of the class below li (of class 0, searched last, for li = 0).
RequestFor(li) == IF li = 0 THEN c_min_list_size(0) ELSE c_min_list_size(li - 1)
\* The lists above list li hold no page.
NoneAbove(li) ==
  \A i \in (li + 1)..(MAX_FREE_LIST - 1) : free_var_page_array[i] = <<>>

\* C15: between operations, a page whose free_space is below the minimum of
\* every class (below 200) is in no free list and get_alloc_page returns it
\* for no request size; and when free_var_rec has raised the free_space of
\* such a page to 200 or more, the page is in the list of the class of its
\* free_space, at its front, and get_alloc_page returns it again (for a
\* request of the class below; in list 0, when the lists above are empty).
C15_UnlistedUntilFreed ==
  fault = "none" =>
    /\ \A q \in VarPages :
         page[q].free_space < c_min_list_size(0)
           => /\ ListsOf(q) = {}
              /\ page[q].list_index = MAX_FREE_LIST
    /\ (\E q \in VarPages : page[q].free_space < c_min_list_size(0))
         => \A m \in ProbeSizes :
              LET i == get_alloc_page(Cur, m).i
              IN i = RNIL \/ page[i].free_space >= c_min_list_size(0)
    /\ (/\ last.op = "free_var_rec"
        /\ page[last.old.m_page_no].free_space >= c_min_list_size(0)
        /\ page[last.old.m_page_no].free_space - last.oldsz < c_min_list_size(0))
         => LET q == last.old.m_page_no
                li == ListIndexOf(page[last.old.m_page_no].free_space)
            IN /\ ListsOf(q) = {li}
               /\ page[q].list_index = li
               /\ Head(free_var_page_array[li]) = q
               /\ (li > 0 \/ NoneAbove(0))
                    => get_alloc_page(Cur, RequestFor(li)).i = q

\* C15, the case: free_var_rec has freed a slot on a page whose free_space was
\* below 200 before the call, and the page is in a free list again.
C15_Witness ==
  /\ last.op = "free_var_rec" /\ last.res = "ok"
  /\ page[last.old.m_page_no].free_space >= c_min_list_size(0)
  /\ page[last.old.m_page_no].free_space - last.oldsz < c_min_list_size(0)
  /\ ListsOf(last.old.m_page_no) # {}
  /\ \E m \in ProbeSizes : get_alloc_page(Cur, m).i = last.old.m_page_no

\* An allocation on a fragment that has no pages, served by the page pool.
FirstAllocStep ==
  /\ pool_used = 0 /\ noOfVarPages = 0 /\ m_empty_pages = <<>>
  /\ IsAlloc(last') /\ pool_used' > 0
\* What that allocation leaves: a reference to a live slot of the requested
\* size on the first page of the chunk, that page initialised with the free
\* space of a fresh page less the size and the slot's index word, and the rest
\* of the chunk in the empty-page list.
FirstAllocCarved ==
  /\ last'.res = "ok" /\ fault' = "none"
  /\ last'.key.m_page_no = 1
  /\ page'[1].page_state = "ZTH_MM_FREE"
  /\ last'.key.m_page_idx \in LiveIdx(page'[1])
  /\ Var_get_entry_len(page'[1], last'.key.m_page_idx) = last'.newsz
  /\ page'[1].free_space = Var_init(RawPage).free_space - last'.newsz - 1
  /\ noOfVarPages' = pool_used'
  /\ m_var_page_chunks' = 1 /\ page'[1].chunk_size = pool_used'
  /\ m_empty_pages' = SetToSeq(2..pool_used')

\* C16 as stated: on a fragment with no pages, alloc_var_part with a supplying
\* pool returns a valid reference into the initialised first page, whose
\* free_space is that of a fresh page minus size minus one index word, and the
\* page is in the free list of the class of that free_space.
C16_FirstAllocFiledInClass ==
  [][FirstAllocStep
       => /\ FirstAllocCarved
          /\ ListsOf(1)' = {calculate_free_list_impl(page'[1].free_space)}
          /\ page'[1].list_index = calculate_free_list_impl(page'[1].free_space)]_vars

\* C16 amended: as above, but the page is in the free list of the class of
\* its free_space only when that free_space is at least 200; below 200 it is
\* in no list and has list_index MAX_FREE_LIST.
C16_FirstAllocFiledOrUnlisted ==
  [][FirstAllocStep
       => /\ FirstAllocCarved
          /\ ListsOf(1)' = IF page'[1].free_space >= c_min_list_size(0)
                           THEN {calculate_free_list_impl(page'[1].free_space)}
                           ELSE {}
          /\ page'[1].list_index = ListIndexOf(page'[1].free_space)]_vars

\* C16, the case: the first allocation of the fragment has been served from a
\* fresh chunk, and has left the page less than 200 words of free space.
C16_Witness ==
  /\ ops = 1 /\ IsAlloc(last) /\ last.res = "ok"
  /\ pool_used > 0 /\ last.key.m_page_no = 1
  /\ page[1].free_space = Var_init(RawPage).free_space - last.newsz - 1
  /\ page[1].free_space < c_min_list_size(0)
  /\ ListsOf(1) = {}

\* The entries of c_min_list_size / c_max_list_size (the MAX_FREE_LIST lists
\* and the entry MAX_FREE_LIST of the pages in no list) whose range holds fs.
RangesHolding(fs) ==
  {i \in 0..MAX_FREE_LIST : c_min_list_size(i) <= fs /\ fs <= c_max_list_size(i)}
\* calculate_free_list_impl has been applied and has returned one of the lists.
Classified ==
  last.op = "calculate_free_list_impl" /\ last.class \in 0..(MAX_FREE_LIST - 1)
\* The returned class is the first in scan order whose maximum is at least fs.
FirstCovering ==
  /\ last.free_space_size <= c_max_list_size(last.class)
  /\ \A j \in 0..(last.class - 1) : last.free_space_size > c_max_list_size(j)

\* C17 as stated: for every free_space value from 0 to the largest class
\* maximum, calculate_free_list_impl returns the one class whose [min, max]
\* range contains the value, which is the first class in scan order whose
\* maximum is at least the value.
C17_ClassContainsValue ==
  last.op = "calculate_free_list_impl"
    => /\ Classified
       /\ FirstCovering
       /\ RangesHolding(last.free_space_size) = {last.class}

\* C17 amended: the ranges of init_list_sizes are contiguous and exhaustive
\* over 0..8159 (each value lies in exactly one range), and
\* calculate_free_list_impl returns the first class in scan order whose
\* maximum is at least the value; that class's range contains the value when
\* the value is at least 200, and for a value below 200 the result is class 0
\* although the value lies below its minimum, in the range of the entry
\* MAX_FREE_LIST that the scan does not visit.
C17_FirstClassCovering ==
  last.op = "calculate_free_list_impl"
    => /\ Classified
       /\ FirstCovering
       /\ Cardinality(RangesHolding(last.free_space_size)) = 1
       /\ IF last.free_space_size >= c_min_list_size(0)
          THEN RangesHolding(last.free_space_size) = {last.class}
          ELSE /\ last.class = 0
               /\ RangesHolding(last.free_space_size) = {MAX_FREE_LIST}

\* C17, the case: a value just below the minimum of class 0 has been
\* classified, as class 0.
C17_Witness ==
  /\ last.op = "calculate_free_list_impl"
  /\ last.free_space_size = c_min_list_size(0) - 1
  /\ last.class = 0

C19_RefilingIdempotent ==
  fault = "none" =>
    \A q \in VarPages :
      /\ update_free_page_list(Cur, q).page[q].list_index = page[q].list_index
      /\ update_free_page_list(Cur, q).free_var_page_array = free_var_page_array
      /\ update_free_page_list(Cur, q) = Cur

\* C19, the case: after an operation a free list holds two pages, one of
\* them not at the front, and another call would have to keep the order.
C19_Witness ==
  /\ fault = "none" /\ last.op # "none" /\ last.res = "ok"
  /\ \E i \in 0..(MAX_FREE_LIST - 1) :
       /\ Len(free_var_page_array[i]) >= 2
       /\ \A j \in 1..Len(free_var_page_array[i]) :
            free_var_page_array[i][j] \in VarPages

\* A step in which alloc_var_part calls get_empty_var_page: an allocation or
\* a relocation for which get_alloc_page finds no page.
GetEmptyCalled ==
  /\ \/ IsAlloc(last') /\ last'.row # 0
     \/ last'.op = "realloc_var_part" /\ last'.path = "relocate"
  /\ get_alloc_page(Cur, last'.newsz + 1) = [i |-> RNIL, fault |-> "none"]

\* C20: get_empty_var_page takes the front of the fragment's empty-page list
\* whenever that list is non-empty and does not ask the page pool; only when
\* the list is empty it asks the pool for a chunk (of at most 10 pages), and
\* it returns RNIL (the allocation fails) exactly when the list is empty and
\* the pool delivers no page.
C20_EmptyPageListFirst ==
  [][GetEmptyCalled =>
       IF m_empty_pages # <<>>
       THEN /\ last'.res = "ok"
            /\ last'.key.m_page_no = Head(m_empty_pages)
            /\ m_empty_pages' = Tail(m_empty_pages)
            /\ pool_used' = pool_used
            /\ noOfVarPages' = noOfVarPages
            /\ m_var_page_chunks' = m_var_page_chunks
       ELSE /\ (last'.res = "fail") <=> (pool_used' = pool_used)
            /\ last'.res \in {"ok", "fail"}
            /\ last'.res = "fail"
                 => /\ last'.key = NoKey
                    /\ m_empty_pages' = <<>>
                    /\ noOfVarPages' = noOfVarPages
            /\ last'.res = "ok"
                 => /\ last'.key.m_page_no = pool_used + 1
                    /\ pool_used' - pool_used <= ChunkPages
                    /\ noOfVarPages' = noOfVarPages + (pool_used' - pool_used)
                    /\ m_var_page_chunks' = pool_used + 1
                    /\ m_empty_pages'
                         = Run(pool_used + 2, pool_used' - pool_used - 1)]_vars

\* C20, the case: an allocation has been served with the front page of the
\* empty-page list, which still holds a page.
C20_Witness ==
  /\ IsAlloc(last) /\ last.res = "ok"
  /\ last.key.m_page_no > 1
  /\ page[last.key.m_page_no].chunk_size = 0
  /\ Cardinality(LiveIdx(page[last.key.m_page_no])) = 1
  /\ m_empty_pages # <<>>
  /\ Head(m_empty_pages) = last.key.m_page_no + 1

\* C21: free_var_rec frees the slot the row's Var_part_ref named before the
\* fixed part was freed: after the call the fixed part and that slot are
\* free, the page's free_space has not decreased (it has grown by at least
\* the slot's length), the page's list membership matches its new free_space,
\* and no other page and no other row has changed.
C21_FreeVarRec ==
  [][\A r \in Rows, p \in Pages :
       (last'.op = "free_var_rec" /\ last'.row = r /\ fix[r].ref.m_page_no = p)
         => /\ last'.res = "ok" /\ fault' = "none"
            /\ last'.old = fix[r].ref
            /\ fix' = [fix EXCEPT ![r] = FreeFix]
            /\ ~(fix[r].ref.m_page_idx \in LiveIdx(page'[p]))
            /\ LiveIdx(page'[p]) = LiveIdx(page[p]) \ {fix[r].ref.m_page_idx}
            /\ page'[p].free_space >= page[p].free_space + last'.oldsz
            /\ page'[p].list_index = ListIndexOf(page'[p].free_space)
            /\ ListsOf(p)' = IF page'[p].free_space >= c_min_list_size(0)
                             THEN {calculate_free_list_impl(page'[p].free_space)}
                             ELSE {}
            /\ \A q \in Pages \ {p} : page'[q] = page[q]]_vars

\* C21, the case: free_var_rec has freed one of several slots of a page.
C21_Witness ==
  /\ last.op = "free_var_rec" /\ last.res = "ok"
  /\ ~fix[last.row].alloc
  /\ LiveIdx(page[last.old.m_page_no]) # {}
  /\ ~(last.old.m_page_idx \in LiveIdx(page[last.old.m_page_no]))

\* The most loop iterations a page search takes: the scan of the classes and
\* of the lists above, the fallback scan, and one chunk of pages.
ScanStepBound ==
  (MAX_FREE_LIST + 1) + (FallbackScanLimit + 1) + 1 + (ChunkPages + 1)

HigherLists(c) ==
  {L \in (c + 1)..(MAX_FREE_LIST - 1) : free_var_page_array[L] # <<>>}

\* C23: get_alloc_page(min_size) returns the head of the first non-empty list
\* among the classes strictly above the class of min_size, in increasing
\* class order; it returns a page of the list of that class itself only when
\* all those higher lists are empty, so whenever a higher list is non-empty
\* the pages of the own class are passed over, roomy or not.  (The loops of
\* the source, run step by step, give the result of the operator
\* get_alloc_page.)
C23_HigherListsFirst ==
  last.returned =>
    LET c == calculate_free_list_impl(last.alloc_size)
    IN /\ HigherLists(c) # {}
            => /\ last.via = "lists"
               /\ last.page = Head(free_var_page_array[
                                CHOOSE L \in HigherLists(c) :
                                  \A M \in HigherLists(c) : L <= M])
       /\ (last.page # RNIL /\ page[last.page].list_index = c)
            => HigherLists(c) = {}
       /\ last.page = get_alloc_page(Cur, last.alloc_size).i

\* C23, the case: get_alloc_page has returned the head of a higher list
\* although the first page of the own class has the room.
C23_Witness ==
  /\ last.returned /\ last.via = "lists"
  /\ HigherLists(calculate_free_list_impl(last.alloc_size)) # {}
  /\ free_var_page_array[calculate_free_list_impl(last.alloc_size)] # <<>>
  /\ page[Head(free_var_page_array[calculate_free_list_impl(last.alloc_size)])].free_space
       >= last.alloc_size
  /\ page[last.page].list_index > calculate_free_list_impl(last.alloc_size)

\* The positions among the first 16 of a list whose page has room for size.
RoomyAmongFirst(list, size) ==
  {j \in 1..Min(Len(list), FallbackScanLimit) : page[list[j]].free_space >= size}

\* C24: when the lists above are empty, get_alloc_page scans the list of the
\* class of min_size itself: it looks at no more than the first 16 pages in
\* list order and returns the first of them with free_space >= min_size, and
\* RNIL when none of them has (also when a later page of the list has); after
\* RNIL, alloc_var_part takes a page from the chunk supplier.
C24_OwnClassFallbackScan ==
  (last.returned /\ HigherLists(calculate_free_list_impl(last.alloc_size)) = {})
    => LET own == free_var_page_array[calculate_free_list_impl(last.alloc_size)]
           hit == RoomyAmongFirst(own, last.alloc_size)
       IN /\ last.page = IF hit = {} THEN RNIL
                         ELSE own[CHOOSE j \in hit : \A x \in hit : j <= x]
          /\ (last.pc = "done" /\ hit = {} /\ last.ret # RNIL)
               => \A L \in 0..(MAX_FREE_LIST - 1) :
                    ~DLList_member(free_var_page_array[L], last.ret)

\* C25: in the relocation path of realloc_var_part the slot alloc_var_part
\* returns is on a page other than the old slot's page: the assertion
\* oldref.m_page_no != newref.m_page_no holds.
C25_RelocatedToOtherPage ==
  [][(last'.op = "realloc_var_part" /\ last'.path = "relocate")
       => /\ fault' # "ndbassert(oldref.m_page_no != newref.m_page_no)"
          /\ last'.res = "ok" => last'.key.m_page_no # last'.old.m_page_no]_vars

\* C26: a page is unlisted (list_index = MAX_FREE_LIST, member of no list)
\* exactly when its free_space is below the minimum of the class
\* calculate_free_list_impl computes for it, which is then class 0: the check
\* ndbrequire(new_list_index == 0) of update_free_page_list never fails.
C26_UnlistedOnlyBelowClassZero ==
  /\ fault # "update_free_page_list: ndbrequire(new_list_index == 0)"
  /\ \A q \in VarPages :
       LET c == calculate_free_list_impl(page[q].free_space)
       IN /\ (page[q].list_index = MAX_FREE_LIST)
               <=> (page[q].free_space < c_min_list_size(c))
          /\ (ListsOf(q) = {}) <=> (page[q].free_space < c_min_list_size(c))
          /\ page[q].free_space < c_min_list_size(c) => c = 0

\* C26, the case: an allocation has taken a page that was in a free list
\* down to less than the minimum of class 0, and the page is now unlisted.
C26_Witness ==
  /\ IsAlloc(last) /\ last.res = "ok" /\ ops >= 2
  /\ Cardinality(LiveIdx(page[last.key.m_page_no])) >= 2
  /\ page[last.key.m_page_no].list_index = MAX_FREE_LIST
  /\ ListsOf(last.key.m_page_no) = {}
  /\ page[last.key.m_page_no].free_space < c_min_list_size(0)

\* C27: between operations, an initialised variable-sized page is a member
\* of free list L exactly when its list_index is L, for every L below
\* MAX_FREE_LIST; no page occurs twice in a list; update_free_page_list never
\* unlinks a page from a list it is not in; and a page taken from the
\* empty-page list is, when alloc_var_part initialises it, added to list
\* MAX_FREE_LIST - 1 with list_index MAX_FREE_LIST - 1.
C27_ListIndexIsMembership ==
  /\ fault # "list.remove: page not in list"
  /\ \A q \in VarPages, L \in 0..(MAX_FREE_LIST - 1) :
       DLList_member(free_var_page_array[L], q) <=> (page[q].list_index = L)
  /\ \A L \in 0..(MAX_FREE_LIST - 1) :
       /\ Cardinality(SeqSet(free_var_page_array[L])) = Len(free_var_page_array[L])
       /\ SeqSet(free_var_page_array[L]) \subseteq VarPages
  /\ \A i \in SeqSet(m_empty_pages) :
       /\ InitVarPage(Cur, i).page[i].list_index = MAX_FREE_LIST - 1
       /\ InitVarPage(Cur, i).free_var_page_array
            = [free_var_page_array EXCEPT ![MAX_FREE_LIST - 1] = <<i>> \o @]
       /\ ~DLList_member(free_var_page_array[MAX_FREE_LIST - 1], i)

\* C27, the case: a page has been re-filed from the top list into a lower
\* one while the empty-page list holds a page still to be initialised.
C27_Witness ==
  /\ last.op # "none" /\ last.res = "ok" /\ fault = "none"
  /\ m_empty_pages # <<>>
  /\ \E q \in VarPages :
       /\ page[q].list_index < MAX_FREE_LIST - 1
       /\ DLList_member(free_var_page_array[page[q].list_index], q)

\* C28: when get_empty_var_page obtains cnt >= 1 consecutive pages from the
\* pool, starting at page id p: p is the page it returns; afterwards the
\* empty-page list holds exactly the pages p+1 .. p+cnt-1 (none when cnt is
\* 1) and not p, the fragment's page count has grown by cnt, and p is the
\* head of the chunk list with chunk_size cnt and next_chunk the head before.
C28_BatchBookkeeping ==
  [][\A p \in Pages, cnt \in 1..PoolPages :
       (p = pool_used + 1 /\ pool_used' = pool_used + cnt)
         => /\ last'.res = "ok" /\ last'.key.m_page_no = p
            /\ m_empty_pages = <<>>
            /\ m_empty_pages' = Run(p + 1, cnt - 1)
            /\ ~DLList_member(m_empty_pages', p)
            /\ noOfVarPages' = noOfVarPages + cnt
            /\ m_var_page_chunks' = p
            /\ page'[p].chunk_size = cnt
            /\ page'[p].next_chunk = m_var_page_chunks
            /\ \A q \in (p + 1)..(p + cnt - 1) :
                 page'[q].page_state = "ZEMPTY_MM" /\ page'[q].chunk_size = 0]_vars

\* C28, the case: a second chunk, of more than one page, has been obtained
\* and its first page used.
C28_Witness ==
  /\ last.res = "ok" /\ last.key.m_page_no = m_var_page_chunks
  /\ m_var_page_chunks > 1
  /\ page[m_var_page_chunks].chunk_size >= 2
  /\ page[m_var_page_chunks].next_chunk = 1
  /\ m_empty_pages = <<m_var_page_chunks + 1>>

\* C29: an alloc_var_part that fails (the fixed part was there, or the row
\* was being relocated, and 0 came back) leaves the fragment as it was: the
\* free lists, every page (its free_space and list_index included), the
\* empty-page list, the chunk list and the var-page count are unchanged.
C29_FailedAllocLeavesFragment ==
  [][(last'.res = "fail" /\ last'.row # 0)
       => /\ UNCHANGED <<free_var_page_array, page, m_empty_pages,
                         m_var_page_chunks, noOfVarPages>>
          /\ m_empty_pages = <<>>
          /\ fault' = "none"]_vars

\* C29, the case: alloc_var_part has failed on a fragment that has pages in
\* its free lists.
C29_Witness ==
  /\ last.res = "fail" /\ last.row # 0
  /\ noOfVarPages > 0
  /\ \E L \in 0..(MAX_FREE_LIST - 1) : free_var_page_array[L] # <<>>
  /\ m_var_page_chunks # RNIL

\* C30: when the fixed-part allocation fails in alloc_var_rec or
\* alloc_var_rowid (no row is handed out), the operation fails and nothing
\* else happens: no page is taken from the pool or from the empty-page list,
\* no page or free list changes, no check of the page search stops the block,
\* and no fixed part is freed.
C30_FixFailureTouchesNothing ==
  [][(IsAlloc(last') /\ last'.row = 0)
       => /\ last'.res = "fail" /\ last'.key = NoKey
          /\ UNCHANGED <<page, free_var_page_array, m_empty_pages,
                         m_var_page_chunks, noOfVarPages, pool_used, fix,
                         fault>>]_vars

\* C30, the case: the fixed-part allocation has failed on a fragment with a
\* live row, a page waiting in the empty-page list and rows still free.
C30_Witness ==
  /\ IsAlloc(last) /\ last.row = 0
  /\ \E r \in Rows : fix[r].alloc
  /\ \E r \in Rows : ~fix[r].alloc
  /\ m_empty_pages # <<>>
  /\ \E L \in 0..(MAX_FREE_LIST - 1) : free_var_page_array[L] # <<>>

\* C31: alloc_var_rec and alloc_var_rowid leave the table's
\* m_fix_header_size as it was when the call was entered, on every path (no
\* fixed part, no variable part and the fixed part freed again, success); it
\* is raised, by XXX, only between the += and the -= around the fixed-part
\* allocation, which works with the raised value.
C31_HeaderSizeRestored ==
  /\ last.pc \in {"done", "test"} => last.m_fix_header_size = last.before
  /\ last.pc \in {"alloc_fix_rec", "restore"}
       => last.m_fix_header_size = Uint32_plus(last.before, XXX)
  /\ last.pc \in {"restore", "test"} \/ (last.pc = "done" /\ last.op # "none")
       => last.seen = Uint32_plus(last.before, XXX)

\* C31, the case: a second call has ended by freeing the fixed part again,
\* after a first call that succeeded, on a table whose header size wraps when
\* it is raised.
C31_Witness ==
  /\ last.pc = "done" /\ last.res = "fail" /\ last.row # 0
  /\ ops >= 2
  /\ \E r \in Rows : fix[r].alloc
  /\ last.seen.hi = 0 /\ last.before.hi = Uint16Mod - 1

\* The page a step has freed a slot of: the page of the row's reference
\* before a free_var_rec, or before a realloc_var_part that moved the row.
FreedFrom(l, q) ==
  /\ l.res = "ok"
  /\ l.old.m_page_no = q
  /\ \/ l.op = "free_var_rec"
     \/ l.op = "realloc_var_part" /\ l.path = "relocate" /\ l.key.m_page_no # q

\* C32: freeing releases no page.  In every step the fragment's var-page
\* count does not decrease, an initialised page stays initialised, and the
\* empty-page list gains no page the fragment had before (only pages the
\* pool has just delivered); a free_var_rec leaves the empty-page list as it
\* was.  A page whose last slot a step has freed (free_space back to that of
\* an empty page) is initialised and in the free list of the top class.
C32_PagesNeverReleased ==
  [][/\ noOfVarPages' >= noOfVarPages
     /\ VarPages \subseteq VarPages'
     /\ \A q \in Pages :
          DLList_member(m_empty_pages', q)
            => DLList_member(m_empty_pages, q) \/ (q > pool_used /\ q <= pool_used')
     /\ last'.op = "free_var_rec" => m_empty_pages' = m_empty_pages
     /\ \A q \in Pages :
          (FreedFrom(last', q) /\ page'[q].free_space = DATA_WORDS - 1)
            => /\ page'[q].page_state = "ZTH_MM_FREE"
               /\ LiveIdx(page'[q]) = {}
               /\ page'[q].list_index = MAX_FREE_LIST - 1
               /\ DLList_member(free_var_page_array'[MAX_FREE_LIST - 1], q)]_vars

\* C32, the case: free_var_rec has freed the last slot of a page while other
\* pages wait in the empty-page list.
C32_Witness ==
  /\ last.op = "free_var_rec" /\ last.res = "ok"
  /\ page[last.old.m_page_no].free_space = DATA_WORDS - 1
  /\ LiveIdx(page[last.old.m_page_no]) = {}
  /\ m_empty_pages # <<>>
  /\ noOfVarPages >= 2

\* The sum of chunk_size over the chunk list that begins at page q (at most
\* n chunks are followed).
RECURSIVE ChunkSum(_, _)
ChunkSum(q, n) ==
  IF q = RNIL \/ n = 0 THEN 0
  ELSE page[q].chunk_size + ChunkSum(page[q].next_chunk, n - 1)
\* The pages of the chunk list that begins at page q.
RECURSIVE ChunkHeads(_, _)
ChunkHeads(q, n) ==
  IF q = RNIL \/ n = 0 THEN {}
  ELSE {q} \cup ChunkHeads(page[q].next_chunk, n - 1)

\* The number of entries of the free lists 0 .. L together.
RECURSIVE ListedCount(_)
ListedCount(L) ==
  IF L < 0 THEN 0 ELSE Len(free_var_page_array[L]) + ListedCount(L - 1)

\* C33: the fragment's var-page count equals the number of pages the pool
\* has delivered to the fragment, equals the sum of chunk_size over the
\* fragment's chunk list (which ends, and visits no page twice), and equals
\* the number of pages in free lists plus the initialised pages in no list
\* plus the pages in the empty-page list.
C33_PageCountAccounts ==
  /\ noOfVarPages = pool_used
  /\ noOfVarPages = ChunkSum(m_var_page_chunks, PoolPages)
  /\ ChunkSum(m_var_page_chunks, PoolPages) = ChunkSum(m_var_page_chunks, PoolPages + 1)
  /\ ChunkHeads(m_var_page_chunks, PoolPages) \subseteq Obtained
  /\ noOfVarPages
       = ListedCount(MAX_FREE_LIST - 1)
         + Cardinality({q \in VarPages : page[q].list_index = MAX_FREE_LIST})
         + Len(m_empty_pages)

\* C33, the case: two chunks, a page in a free list, an initialised page in
\* no list and a page in the empty-page list at one time.
C33_Witness ==
  /\ Cardinality(ChunkHeads(m_var_page_chunks, PoolPages)) >= 2
  /\ ListedCount(MAX_FREE_LIST - 1) >= 1
  /\ \E q \in VarPages : page[q].list_index = MAX_FREE_LIST
  /\ m_empty_pages # <<>>
  /\ last.res = "ok" /\ fault = "none"

C35_StartIndexChecksHold ==
  last.op = "get_alloc_page" =>
    /\ fault = "none"
    /\ last.class \in 0..(MAX_FREE_LIST - 1)
    /\ last.class # MAX_FREE_LIST - 1 => last.start_index - 1 < MAX_FREE_LIST - 1
    /\ last.start_index > 0
    /\ last.start_index - 1 \in DOMAIN free_var_page_array

\* C35, the case: a request of the lowest class found every list from
\* start_index on empty, and the fallback scanned list 0.
C35_Witness ==
  /\ last.op = "get_alloc_page"
  /\ last.class = 0 /\ last.start_index = 1
  /\ \A L \in 1..(MAX_FREE_LIST - 1) : free_var_page_array[L] = <<>>
  /\ free_var_page_array[0] # <<>>
  /\ last.i = RNIL

====
